---- MODULE Spec2Model ----
(***************************************************************************)
(* CameraFeed of lychee_collector/core/camera_manager.py: one caller       *)
(* thread (the Tk main thread of the application, which makes every API    *)
(* call), the capture-loop threads start_feed spawns, and the device.      *)
(* Every step is one access to state shared between threads.               *)
(***************************************************************************)
EXTENDS Integers, Sequences, FiniteSets, TLC

\* ------------------------------------------------------------- bounds
MaxThreads == 2      \* capture threads start_feed may spawn in one run
MaxHandles == 2      \* cv2.VideoCapture objects connect may create
MaxReads == 2        \* successful device reads of the capture loops
MaxCallbacks == 2    \* length of frame_callbacks

Threads == 1..MaxThreads
Callbacks == {"good", "bad"}
Caller == -1         \* the caller thread, as holder of frame_lock

\* A callback that raises on every invocation.
Raises(cb) == cb = "bad"

\* ------------------------------------------------------------- frames
NoCrop == <<>>
Rect == <<0, 0, 1, 1>>
\* None as a frame; a frame is its capture instant, its buffer and the crop applied
NoFrame == [inst |-> 0, buf |-> "none", crop |-> NoCrop]

\* camera.read(): the buffer of capture instant n
DeviceFrame(n) == [inst |-> n, buf |-> "read", crop |-> NoCrop]
\* ndarray.copy(): same content, a new buffer
CopyAs(frame, b) == [frame EXCEPT !.buf = b]
\* process_frame without the crop.
process_frame_Uncropped(frame, crop) == [inst |-> frame.inst, buf |-> "proc", crop |-> NoCrop]

\* ImageProcessor.process_frame: processed = frame.copy(), then the transforms;
\* the crop is a slice of that copy
process_frame(frame, crop) == [inst |-> frame.inst, buf |-> "proc", crop |-> crop]

\* ------------------------------------------------------------- images
\* An image is its pixels, a sequence of rows, and the buffer that holds them.
NoImage == [px |-> <<>>, buf |-> "none"]     \* None
Unused == [px |-> <<>>, buf |-> "unused"]    \* no process_frame call has just returned
Wide == [px |-> <<<<1, 2, 3>>, <<4, 5, 6>>>>, buf |-> "in"]   \* 3 x 2
Dot == [px |-> <<<<7>>>>, buf |-> "in"]                         \* 1 x 1
Images == {NoImage, Wide, Dot}

Max(a, b) == IF a > b THEN a ELSE b
Min(a, b) == IF a < b THEN a ELSE b

\* processed.shape[:2] is (height, width)
Height(m) == Len(m)
Width(m) == IF m = <<>> THEN 0 ELSE Len(m[1])

\* cv2.rotate(processed, cv2.ROTATE_90_CLOCKWISE)
Rotate90CW(m) ==
    [r \in 1..Width(m) |-> [c \in 1..Height(m) |-> m[Height(m) - c + 1][r]]]
\* cv2.rotate(processed, cv2.ROTATE_180)
Rotate180(m) ==
    [r \in 1..Height(m) |-> [c \in 1..Width(m) |-> m[Height(m) - r + 1][Width(m) - c + 1]]]
\* cv2.rotate(processed, cv2.ROTATE_90_COUNTERCLOCKWISE)
Rotate90CCW(m) ==
    [r \in 1..Width(m) |-> [c \in 1..Height(m) |-> m[c][Width(m) - r + 1]]]
\* cv2.flip(processed, 1)
FlipH(m) == [r \in 1..Height(m) |-> [c \in 1..Width(m) |-> m[r][Width(m) - c + 1]]]
\* cv2.flip(processed, 0)
FlipV(m) == [r \in 1..Height(m) |-> [c \in 1..Width(m) |-> m[Height(m) - r + 1][c]]]
\* processed[y:y+h, x:x+w]
Slice(m, x, y, w, h) == [r \in 1..h |-> [c \in 1..w |-> m[y + r][x + c]]]

\* The rotation step of process_frame: angles other than 90, 180, 270 rotate nothing.
Rotated(m, angle) ==
    IF angle = 90 THEN Rotate90CW(m)
    ELSE IF angle = 180 THEN Rotate180(m)
    ELSE IF angle = 270 THEN Rotate90CCW(m)
    ELSE m

\* The flip step of process_frame.
Flipped(m, fh, fv) ==
    IF fh /\ fv THEN FlipV(FlipH(m))
    ELSE IF fh THEN FlipH(m)
    ELSE IF fv THEN FlipV(m)
    ELSE m

\* The clamp against the frame as it was before it was rotated.
ClampCrop_Unrotated(crop, width, height) ==
    LET x == Max(0, Min(crop[1], height - 1))
        y == Max(0, Min(crop[2], width - 1))
    IN  <<x, y, Max(1, Min(crop[3], height - x)), Max(1, Min(crop[4], width - y))>>

\* A clamp that does not floor the size at 1.
ClampCrop_NoFloor(crop, width, height) ==
    LET x == Max(0, Min(crop[1], width - 1))
        y == Max(0, Min(crop[2], height - 1))
    IN  <<x, y, Min(crop[3], width - x), Min(crop[4], height - y)>>

\* "Ensure crop region is within bounds": the rectangle process_frame applies
ClampCrop(crop, width, height) ==
    LET x == Max(0, Min(crop[1], width - 1))
        y == Max(0, Min(crop[2], height - 1))
    IN  <<x, y, Max(1, Min(crop[3], width - x)), Max(1, Min(crop[4], height - y))>>

\* The crop step of process_frame: `if self.crop_region:` is False for None.
Cropped(m, crop) ==
    IF crop = <<>> THEN m
    ELSE LET c == ClampCrop(crop, Width(m), Height(m))
         IN  Slice(m, c[1], c[2], c[3], c[4])

\* process_frame that flips before it rotates.
ProcessedImage_FlipFirst(img, angle, fh, fv, crop) ==
    IF img = NoImage THEN NoImage
    ELSE [px |-> Cropped(Rotated(Flipped(img.px, fh, fv), angle), crop), buf |-> "copy"]

\* process_frame that works on its argument without copying it.
ProcessedImage_InPlace(img, angle, fh, fv, crop) ==
    IF img = NoImage THEN NoImage
    ELSE [px |-> Cropped(Flipped(Rotated(img.px, angle), fh, fv), crop), buf |-> img.buf]

\* ImageProcessor.process_frame on pixels: None for None, else rotation, flips and
\* crop in this order on frame.copy()
ProcessedImage(img, angle, fh, fv, crop) ==
    IF img = NoImage THEN NoImage
    ELSE [px |-> Cropped(Flipped(Rotated(img.px, angle), fh, fv), crop), buf |-> "copy"]

\* ------------------------------------------------------------- settings
\* ImageProcessor.__init__ and reset: the default settings
DefaultSettings ==
    [rotation_angle |-> 0, flip_horizontal |-> FALSE, flip_vertical |-> FALSE,
     crop_region |-> <<>>]
NoDict == [k \in {} |-> 0]

\* None as a camera index
None == -1

\* process_frame has applied nothing (yet)
NoTransform == [rot |-> 0, fh |-> FALSE, fv |-> FALSE, crop |-> NoCrop]

\* Strategy 1 of detect_iphone_camera has not run.
NoListing == [how |-> "none", idx |-> None]

VARIABLES
    camera,           \* self.camera: 0 (None) or a handle
    handles,          \* the VideoCapture objects created so far, by handle
    is_active, is_connected, stop_capture,
    capture_thread,   \* self.capture_thread: 0 (None) or a thread
    nthreads,         \* threads spawned so far
    current_frame, processed_frame,
    frame_lock,       \* 0 (free) or its holder
    frame_callbacks,
    crop_region,      \* self.processor.crop_region
    clock,            \* capture instants handed out by the device
    tpc,              \* position of each capture thread
    tframe,           \* the loop's local `frame`
    idx,              \* the index of the loop's list iterator
    calls,            \* callbacks invoked in the thread's current cycle, with
                      \* the instant and the buffer of the frame each got
    clean,            \* the cycle ran undisturbed so far (history)
    cpc,              \* position of the caller
    cop,              \* the API call in progress
    pre,              \* the feed when the call in progress began (history)
    ret,              \* what the call returns
    retframe,         \* the frame the call returns, when it returns one
    timedout,         \* some join of this feed has timed out (history)
    conn_result,      \* how the connect of the call in progress went (history)
    quiesced,         \* stop_feed has returned and start_feed not called since
    rotation_angle, flip_horizontal, flip_vertical,   \* self.processor's settings
    image_in,         \* the frame the process_frame call in progress was given
    image_out,        \* what that call returns
    settings_dict,    \* the dictionary get_settings_dict last returned
    other,            \* the settings of a second ImageProcessor
    available_cameras,  \* CameraManager.available_cameras
    max_cameras,      \* the argument of the detect_cameras call
    available,        \* detect_cameras' local list
    probes,           \* the indices probed by that call: outcome and handle of each
    iphone_idx,       \* what detect_iphone_camera returned: an index, or None
    options,          \* what get_available_camera_options returned
    camera_feeds,     \* CameraManager.camera_feeds: names and feeds, in insertion order
    feeds,            \* every CameraFeed create_camera_feed has made
    pending,          \* the names cleanup has yet to remove
    rname,            \* the argument of the remove_feed call in progress
    listing,          \* how strategy 1 of the detect_iphone_camera call went
    scan_i,           \* the index strategy 2 of that call is at; 0: not attempted
    ppc,              \* position of a capture thread inside process_frame
    applied,          \* the transform that process_frame call has applied so far
    held              \* the settings the processor has held since that call
                      \* began (history)

vars == <<camera, handles, is_active, is_connected, stop_capture, capture_thread,
          nthreads, current_frame, processed_frame, frame_lock, frame_callbacks,
          crop_region, clock, tpc, tframe, idx, calls, clean, cpc, cop, pre, ret,
          retframe, timedout, conn_result, quiesced,
          rotation_angle, flip_horizontal, flip_vertical, image_in, image_out,
          settings_dict, other, available_cameras, max_cameras, available, probes,
          iphone_idx, options, camera_feeds, feeds, pending, rname,
          listing, scan_i, ppc, applied, held>>

feed == <<camera, handles, is_active, is_connected, stop_capture, capture_thread,
          nthreads>>
frames == <<current_frame, processed_frame, frame_lock>>
loops == <<tpc, tframe, idx, calls, clean, clock>>
callv == <<cpc, cop, pre, ret, retframe, timedout, conn_result, quiesced>>
\* what the processor is used on, and its settings as saved and reloaded
work == <<image_in, image_out, settings_dict, other>>
\* the processor's settings but the crop
turn == <<rotation_angle, flip_horizontal, flip_vertical>>
\* the CameraManager
mgr == <<available_cameras, max_cameras, available, probes, iphone_idx, options>>
\* the registry of the CameraManager
reg == <<camera_feeds, feeds, pending, rname>>
\* the two strategies of detect_iphone_camera
iph == <<listing, scan_i>>
\* process_frame as run by a capture thread
pfv == <<ppc, applied, held>>
\* the state outside the feed
outside == <<turn, work, mgr, reg, iph, pfv>>

Alive(t) == t \in Threads /\ tpc[t] \notin {"unborn", "exited", "crashed"}
Running == {t \in Threads : Alive(t)}
IsOpened(h) == handles[h] = "open"
\* own: the loop of capture_thread has ended without having been told to stop
\* cams: the cached list of the manager
Snapshot == [conn |-> is_connected, act |-> is_active, cam |-> camera,
             nh |-> Len(handles), nt |-> nthreads,
             own |-> (~stop_capture /\ capture_thread # 0 /\ ~Alive(capture_thread)),
             cams |-> available_cameras, reg |-> camera_feeds, fds |-> feeds]
NoPre == [conn |-> FALSE, act |-> FALSE, cam |-> 0, nh |-> 0, nt |-> 0, own |-> FALSE,
          cams |-> <<>>, reg |-> <<>>, fds |-> <<>>]

\* CameraFeed.__init__
Init ==
    /\ camera = 0
    /\ handles = <<>>
    /\ is_active = FALSE
    /\ is_connected = FALSE
    /\ stop_capture = FALSE
    /\ capture_thread = 0
    /\ nthreads = 0
    /\ current_frame = NoFrame
    /\ processed_frame = NoFrame
    /\ frame_lock = 0
    /\ frame_callbacks = <<>>
    /\ crop_region = NoCrop
    /\ clock = 0
    /\ tpc = [t \in Threads |-> "unborn"]
    /\ tframe = [t \in Threads |-> NoFrame]
    /\ idx = [t \in Threads |-> 0]
    /\ calls = [t \in Threads |-> <<>>]
    /\ clean = [t \in Threads |-> TRUE]
    /\ cpc = "idle"
    /\ cop = "none"
    /\ pre = NoPre
    /\ ret = "none"
    /\ timedout = FALSE
    /\ conn_result = "none"
    /\ quiesced = FALSE
    /\ retframe = NoFrame
    /\ rotation_angle = 0
    /\ flip_horizontal = FALSE
    /\ flip_vertical = FALSE
    /\ image_in = Unused
    /\ image_out = Unused
    /\ settings_dict = NoDict
    /\ other = DefaultSettings
    /\ available_cameras = <<>>
    /\ max_cameras = 0
    /\ available = <<>>
    /\ probes = <<>>
    /\ iphone_idx = None
    /\ options = <<>>
    /\ camera_feeds = <<>>
    /\ feeds = <<>>
    /\ pending = <<>>
    /\ rname = "none"
    /\ listing = NoListing
    /\ scan_i = 0
    /\ ppc = "idle"
    /\ applied = NoTransform
    /\ held = {}

\* ------------------------------------------------------------- the caller
Idle == cpc = "idle"

Begin(op, pc) ==
    /\ cop' = op
    /\ pre' = Snapshot
    /\ cpc' = pc
    /\ ret' = "none"
    /\ retframe' = NoFrame

Finish(value) ==
    /\ cpc' = "return"
    /\ ret' = value
    /\ retframe' = NoFrame

\* return <an ndarray>
FinishFrame(frame) ==
    /\ cpc' = "return"
    /\ ret' = "frame"
    /\ retframe' = frame

\* The call has returned to the application.
Return ==
    /\ cpc = "return"
    /\ cpc' = "idle"
    /\ cop' = "none"
    /\ pre' = NoPre
    /\ ret' = "none"
    /\ retframe' = NoFrame
    /\ conn_result' = "none"
    /\ image_in' = Unused
    /\ image_out' = Unused
    /\ UNCHANGED <<feed, frames, loops, frame_callbacks, crop_region, timedout, quiesced>>
    /\ UNCHANGED <<turn, settings_dict, other>>
    /\ UNCHANGED mgr
    /\ UNCHANGED pfv
    /\ UNCHANGED iph
    /\ UNCHANGED reg

\* process_frame is running on a capture thread
InProcessFrame == ppc \notin {"idle", "done", "crashed"}

\* The settings an assignment of the caller leaves the processor with are
\* settings it has held during the process_frame call in progress.
Witnessed ==
    IF InProcessFrame
    THEN held \cup {[rotation_angle |-> rotation_angle', flip_horizontal |-> flip_horizontal',
                     flip_vertical |-> flip_vertical', crop_region |-> crop_region']}
    ELSE held

\* CameraFeed.add_frame_callback: list.append
add_frame_callback(cb) ==
    /\ Idle
    /\ Len(frame_callbacks) < MaxCallbacks
    /\ frame_callbacks' = Append(frame_callbacks, cb)
    /\ clean' = [t \in Threads |-> clean[t] /\ tpc[t] # "notify"]
    /\ UNCHANGED <<feed, frames, crop_region, tpc, tframe, idx, calls, clock, callv>>
    /\ UNCHANGED outside

\* list.remove: the first occurrence
RemoveFirst(s, x) ==
    LET i == CHOOSE k \in 1..Len(s) : s[k] = x /\ \A j \in 1..(k - 1) : s[j] # x
    IN  [k \in 1..(Len(s) - 1) |-> IF k < i THEN s[k] ELSE s[k + 1]]

InList(s, x) == \E k \in 1..Len(s) : s[k] = x

\* CameraFeed.remove_frame_callback
remove_frame_callback(cb) ==
    /\ Idle
    /\ frame_callbacks' = IF InList(frame_callbacks, cb)
                          THEN RemoveFirst(frame_callbacks, cb)
                          ELSE frame_callbacks
    /\ clean' = [t \in Threads |->
                    clean[t] /\ (tpc[t] # "notify" \/ ~InList(frame_callbacks, cb))]
    /\ UNCHANGED <<feed, frames, crop_region, tpc, tframe, idx, calls, clock, callv>>
    /\ UNCHANGED outside

\* ImageProcessor.set_crop_region
set_crop_region ==
    /\ Idle
    /\ crop_region' = Rect
    /\ UNCHANGED <<feed, frames, loops, frame_callbacks, callv>>
    /\ UNCHANGED <<rotation_angle, flip_horizontal, flip_vertical, work>>
    /\ UNCHANGED mgr
    /\ UNCHANGED <<ppc, applied>>
    /\ held' = Witnessed
    /\ UNCHANGED iph
    /\ UNCHANGED reg

\* ImageProcessor.clear_crop
clear_crop ==
    /\ Idle
    /\ crop_region' = NoCrop
    /\ UNCHANGED <<feed, frames, loops, frame_callbacks, callv>>
    /\ UNCHANGED <<rotation_angle, flip_horizontal, flip_vertical, work>>
    /\ UNCHANGED mgr
    /\ UNCHANGED <<ppc, applied>>
    /\ held' = Witnessed
    /\ UNCHANGED iph
    /\ UNCHANGED reg

\* ---- ImageProcessor

\* arguments of set_rotation, and of set_crop_region (negative, zero, oversize)
Angles == {-90, 45, 90, 450}
Coords == {-1, 0, 1, 3}
Sizes == {-1, 0, 2, 4}

\* set_rotation without the modulo.
NormalizedAngle_Raw(angle) == angle

\* angle % 360 (Python's %: the result has the sign of the divisor)
NormalizedAngle(angle) == angle % 360

\* rotate_clockwise without the wraparound.
RotatedClockwise_NoWrap(angle) == angle + 90

\* (self.rotation_angle + 90) % 360
RotatedClockwise(angle) == (angle + 90) % 360

\* (self.rotation_angle - 90) % 360
RotatedCounterclockwise(angle) == (angle - 90) % 360

\* ImageProcessor.set_rotation
set_rotation(angle) ==
    /\ Idle
    /\ rotation_angle' = NormalizedAngle(angle)
    /\ UNCHANGED <<feed, frames, loops, frame_callbacks, crop_region, callv,
                   flip_horizontal, flip_vertical, work>>
    /\ UNCHANGED mgr
    /\ UNCHANGED <<ppc, applied>>
    /\ held' = Witnessed
    /\ UNCHANGED iph
    /\ UNCHANGED reg

\* ImageProcessor.rotate_clockwise
rotate_clockwise ==
    /\ Idle
    /\ rotation_angle' = RotatedClockwise(rotation_angle)
    /\ UNCHANGED <<feed, frames, loops, frame_callbacks, crop_region, callv,
                   flip_horizontal, flip_vertical, work>>
    /\ UNCHANGED mgr
    /\ UNCHANGED <<ppc, applied>>
    /\ held' = Witnessed
    /\ UNCHANGED iph
    /\ UNCHANGED reg

\* ImageProcessor.rotate_counterclockwise
rotate_counterclockwise ==
    /\ Idle
    /\ rotation_angle' = RotatedCounterclockwise(rotation_angle)
    /\ UNCHANGED <<feed, frames, loops, frame_callbacks, crop_region, callv,
                   flip_horizontal, flip_vertical, work>>
    /\ UNCHANGED mgr
    /\ UNCHANGED <<ppc, applied>>
    /\ held' = Witnessed
    /\ UNCHANGED iph
    /\ UNCHANGED reg

\* ImageProcessor.toggle_flip_horizontal
toggle_flip_horizontal ==
    /\ Idle
    /\ flip_horizontal' = ~flip_horizontal
    /\ UNCHANGED <<feed, frames, loops, frame_callbacks, crop_region, callv,
                   rotation_angle, flip_vertical, work>>
    /\ UNCHANGED mgr
    /\ UNCHANGED <<ppc, applied>>
    /\ held' = Witnessed
    /\ UNCHANGED iph
    /\ UNCHANGED reg

\* ImageProcessor.toggle_flip_vertical
toggle_flip_vertical ==
    /\ Idle
    /\ flip_vertical' = ~flip_vertical
    /\ UNCHANGED <<feed, frames, loops, frame_callbacks, crop_region, callv,
                   rotation_angle, flip_horizontal, work>>
    /\ UNCHANGED mgr
    /\ UNCHANGED <<ppc, applied>>
    /\ held' = Witnessed
    /\ UNCHANGED iph
    /\ UNCHANGED reg

\* ImageProcessor.reset
reset ==
    /\ Idle
    /\ rotation_angle' = DefaultSettings.rotation_angle
    /\ flip_horizontal' = DefaultSettings.flip_horizontal
    /\ flip_vertical' = DefaultSettings.flip_vertical
    /\ crop_region' = DefaultSettings.crop_region
    /\ UNCHANGED <<feed, frames, loops, frame_callbacks, callv, work>>
    /\ UNCHANGED mgr
    /\ UNCHANGED <<ppc, applied>>
    /\ held' = Witnessed
    /\ UNCHANGED iph
    /\ UNCHANGED reg

\* ImageProcessor.set_crop_region(x, y, w, h): the rectangle is stored as given
set_crop_region_xywh(x, y, w, h) ==
    /\ Idle
    /\ crop_region' = <<x, y, w, h>>
    /\ UNCHANGED <<feed, frames, loops, frame_callbacks, callv, turn, work>>
    /\ UNCHANGED mgr
    /\ UNCHANGED <<ppc, applied>>
    /\ held' = Witnessed
    /\ UNCHANGED iph
    /\ UNCHANGED reg

\* processor.process_frame(img), called by the caller thread on an image
call_process_frame(img) ==
    /\ Idle
    /\ Begin("process_frame", "return")
    /\ image_in' = img
    /\ image_out' = ProcessedImage(img, rotation_angle, flip_horizontal,
                                   flip_vertical, crop_region)
    /\ UNCHANGED <<feed, frames, loops, frame_callbacks, crop_region, timedout,
                   conn_result, quiesced, turn, settings_dict, other>>
    /\ UNCHANGED mgr
    /\ UNCHANGED pfv
    /\ UNCHANGED iph
    /\ UNCHANGED reg

\* get_settings_dict that leaves the crop out.
SettingsDict_NoCrop(angle, fh, fv, crop) ==
    [rotation_angle |-> angle, flip_horizontal |-> fh, flip_vertical |-> fv]

\* The dictionary get_settings_dict builds.
SettingsDict(angle, fh, fv, crop) ==
    [rotation_angle |-> angle, flip_horizontal |-> fh, flip_vertical |-> fv,
     crop_region |-> crop]

\* dict.get(key, default)
Get(d, key, default) == IF key \in DOMAIN d THEN d[key] ELSE default

\* The settings load_settings_dict assigns.
LoadedSettings(d) ==
    [rotation_angle |-> Get(d, "rotation_angle", 0),
     flip_horizontal |-> Get(d, "flip_horizontal", FALSE),
     flip_vertical |-> Get(d, "flip_vertical", FALSE),
     crop_region |-> Get(d, "crop_region", NoCrop)]

\* ImageProcessor.get_settings_dict
get_settings_dict ==
    /\ Idle
    /\ Begin("get_settings_dict", "return")
    /\ settings_dict' = SettingsDict(rotation_angle, flip_horizontal, flip_vertical,
                                     crop_region)
    /\ UNCHANGED <<feed, frames, loops, frame_callbacks, crop_region, timedout,
                   conn_result, quiesced, turn, image_in, image_out, other>>
    /\ UNCHANGED mgr
    /\ UNCHANGED pfv
    /\ UNCHANGED iph
    /\ UNCHANGED reg

\* ImageProcessor.load_settings_dict(settings), on the second processor
load_settings_dict ==
    /\ Idle
    /\ Begin("load_settings_dict", "return")
    /\ other' = LoadedSettings(settings_dict)
    /\ UNCHANGED <<feed, frames, loops, frame_callbacks, crop_region, timedout,
                   conn_result, quiesced, turn, image_in, image_out, settings_dict>>
    /\ UNCHANGED mgr
    /\ UNCHANGED pfv
    /\ UNCHANGED iph
    /\ UNCHANGED reg

\* settings the second processor may have before it loads
OtherSettings ==
    {DefaultSettings,
     [rotation_angle |-> 180, flip_horizontal |-> TRUE, flip_vertical |-> TRUE,
      crop_region |-> Rect]}

\* The second processor's own setters have been used.
other_changes(prior) ==
    /\ Idle
    /\ other # prior
    /\ other' = prior
    /\ UNCHANGED <<feed, frames, loops, frame_callbacks, crop_region, callv, turn,
                   image_in, image_out, settings_dict>>
    /\ UNCHANGED mgr
    /\ UNCHANGED pfv
    /\ UNCHANGED iph
    /\ UNCHANGED reg

\* ---- CameraManager
\* detect_cameras(max_cameras) is called with 0..MaxCameras
MaxCameras == 3

\* What detect_iphone_camera may return: None, an index detect_cameras may
\* have listed, one of the indices 2..5, and one above them.
IPhoneResults == {None, 1, 2, 6}

\* the state outside the manager and the caller's position
apart == <<feed, frames, loops, frame_callbacks, crop_region, timedout, conn_result,
           quiesced, turn, work>>

\* One probed index: how the probe ended ("pending" while it runs) and the
\* state of the cv2.VideoCapture it made ("none" when the constructor raised).
Probe(outcome, cap) == [outcome |-> outcome, cap |-> cap]

\* The last reference to a VideoCapture is dropped (cap is bound to the next
\* one, or the function returns): its destructor releases it if still open.
Dropped(ps) ==
    [j \in 1..Len(ps) |-> IF ps[j].cap = "open" THEN Probe(ps[j].outcome, "released")
                                                ELSE ps[j]]

\* The probe of the last index goes on as p.
WithLast(ps, p) == [ps EXCEPT ![Len(ps)] = p]

\* detect_cameras that adds what it found to the cached list.
CachedAfterDetect_Merged(cached, found) == cached \o found

\* self.available_cameras = available
CachedAfterDetect(cached, found) == found

\* manager.detect_cameras(limit): available = []
Call_detect_cameras(limit) ==
    /\ Idle
    /\ Begin("detect_cameras", "det_open")
    /\ max_cameras' = limit
    /\ available' = <<>>
    /\ probes' = <<>>
    /\ UNCHANGED <<available_cameras, iphone_idx, options>>
    /\ UNCHANGED apart
    /\ UNCHANGED pfv
    /\ UNCHANGED iph
    /\ UNCHANGED reg

\* for i in range(max_cameras): cap = cv2.VideoCapture(i, ...); cap.isOpened().
\* The constructor raises, or makes a capture that opened or did not; a capture
\* that did not open ends the probe ("Failed to open").
det_open(how) ==
    /\ cpc = "det_open"
    /\ Len(probes) < max_cameras
    /\ probes' = CASE how = "raised"   -> Append(probes, Probe("exception", "none"))
                   [] how = "unopened" -> Append(Dropped(probes), Probe("open_failed", "unopened"))
                   [] how = "opened"   -> Append(Dropped(probes), Probe("pending", "open"))
    /\ cpc' = IF how = "opened" THEN "det_read" ELSE "det_open"
    /\ UNCHANGED <<cop, pre, ret, retframe>>
    /\ UNCHANGED <<available_cameras, max_cameras, available, iphone_idx, options>>
    /\ UNCHANGED apart
    /\ UNCHANGED pfv
    /\ UNCHANGED iph
    /\ UNCHANGED reg

\* cap.set(...); ret, frame = cap.read(); if ret and frame is not None: ...
\* available.append(i). An exception of set, read, get or getBackendName goes to
\* the except clause, which prints and goes on with the next index.
det_read(what) ==
    /\ cpc = "det_read"
    /\ probes' = WithLast(probes, Probe(IF what = "raised" THEN "exception" ELSE what, "open"))
    /\ available' = IF what = "frame" THEN Append(available, Len(probes) - 1) ELSE available
    /\ cpc' = IF what = "raised" THEN "det_open" ELSE "det_release"
    /\ UNCHANGED <<cop, pre, ret, retframe>>
    /\ UNCHANGED <<available_cameras, max_cameras, iphone_idx, options>>
    /\ UNCHANGED apart
    /\ UNCHANGED pfv
    /\ UNCHANGED iph
    /\ UNCHANGED reg

\* cap.release()
det_release ==
    /\ cpc = "det_release"
    /\ probes' = WithLast(probes, Probe(probes[Len(probes)].outcome, "released"))
    /\ cpc' = "det_open"
    /\ UNCHANGED <<cop, pre, ret, retframe>>
    /\ UNCHANGED <<available_cameras, max_cameras, available, iphone_idx, options>>
    /\ UNCHANGED apart
    /\ UNCHANGED pfv
    /\ UNCHANGED iph
    /\ UNCHANGED reg

\* self.available_cameras = available; return available
det_done ==
    /\ cpc = "det_open"
    /\ Len(probes) = max_cameras
    /\ available_cameras' = CachedAfterDetect(available_cameras, available)
    /\ probes' = Dropped(probes)
    /\ Finish("list")
    /\ UNCHANGED <<cop, pre>>
    /\ UNCHANGED <<max_cameras, available, iphone_idx, options>>
    /\ UNCHANGED apart
    /\ UNCHANGED pfv
    /\ UNCHANGED iph
    /\ UNCHANGED reg

\* the indices of a list of options
Listed(opts) == {opts[j][1] : j \in 1..Len(opts)}

\* The iPhone entry that lists an index whatever is listed already.
WithIPhone_Always(opts, found, cached) ==
    IF found # None THEN Append(opts, <<found, "iPhone Camera">>) ELSE opts

\* if iphone_idx is not None and iphone_idx not in self.available_cameras:
\*     options.append((iphone_idx, f"iPhone Camera (Index {iphone_idx})"))
WithIPhone(opts, found, cached) ==
    IF found # None /\ found \notin {cached[j] : j \in 1..Len(cached)}
    THEN Append(opts, <<found, "iPhone Camera">>)
    ELSE opts

\* for idx in [2, 3, 4, 5]: if idx not in [opt[0] for opt in options]:
\*     options.append((idx, f"Try Camera {idx} (Possible iPhone)"))
RECURSIVE WithTries(_, _)
WithTries(opts, indices) ==
    IF indices = <<>> THEN opts
    ELSE WithTries(IF Head(indices) \notin Listed(opts)
                   THEN Append(opts, <<Head(indices), "Try Camera">>)
                   ELSE opts,
                   Tail(indices))

\* The list get_available_camera_options builds. get_camera_names has a name
\* for every index of available_cameras (lines 404-406): the name of an entry
\* stands for whichever it is.
Options(cached, found) ==
    WithTries(WithIPhone([j \in 1..Len(cached) |-> <<cached[j], "name">>], found, cached),
              <<2, 3, 4, 5>>)

\* manager.get_available_camera_options(), where detect_iphone_camera returns
\* found
get_available_camera_options(found) ==
    /\ Idle
    /\ Begin("get_available_camera_options", "return")
    /\ iphone_idx' = found
    /\ options' = Options(available_cameras, found)
    /\ UNCHANGED <<available_cameras, max_cameras, available, probes>>
    /\ UNCHANGED apart
    /\ UNCHANGED pfv
    /\ UNCHANGED iph
    /\ UNCHANGED reg

\* ---- process_frame on a capture thread, the caller editing the settings
\* Each step is one read of an attribute of the processor (lines 67-84).
\* settings the caller may go through during one process_frame call
MaxEdits == 3

\* the feed, the caller and the manager
others == <<feed, frames, loops, frame_callbacks, crop_region, callv, turn, work, mgr,
            reg, iph>>

\* self.processed_frame = self.processor.process_frame(frame): the call begins
pf_begin ==
    /\ ~InProcessFrame
    /\ ppc' = "pf_67"
    /\ applied' = NoTransform
    /\ held' = {[rotation_angle |-> rotation_angle, flip_horizontal |-> flip_horizontal,
                 flip_vertical |-> flip_vertical, crop_region |-> crop_region]}
    /\ UNCHANGED others

\* The thread goes from one line to another, having applied app.
PF(from, to, app) ==
    /\ ppc = from
    /\ ppc' = to
    /\ applied' = app
    /\ UNCHANGED held
    /\ UNCHANGED others

\* if self.rotation_angle == 90: cv2.rotate(processed, cv2.ROTATE_90_CLOCKWISE)
pf_rot90 ==
    IF rotation_angle = 90 THEN PF("pf_67", "pf_75", [applied EXCEPT !.rot = 90])
    ELSE PF("pf_67", "pf_69", applied)

\* elif self.rotation_angle == 180
pf_rot180 ==
    IF rotation_angle = 180 THEN PF("pf_69", "pf_75", [applied EXCEPT !.rot = 180])
    ELSE PF("pf_69", "pf_71", applied)

\* elif self.rotation_angle == 270
pf_rot270 ==
    IF rotation_angle = 270 THEN PF("pf_71", "pf_75", [applied EXCEPT !.rot = 270])
    ELSE PF("pf_71", "pf_75", applied)

\* if self.flip_horizontal and ...
pf_flip_h ==
    IF flip_horizontal THEN PF("pf_75", "pf_75v", applied)
    ELSE PF("pf_75", "pf_77", applied)

\* ... and self.flip_vertical: cv2.flip(processed, -1)
pf_flip_hv ==
    IF flip_vertical THEN PF("pf_75v", "pf_83", [applied EXCEPT !.fh = TRUE, !.fv = TRUE])
    ELSE PF("pf_75v", "pf_77", applied)

\* elif self.flip_horizontal: cv2.flip(processed, 1)
pf_flip_h_only ==
    IF flip_horizontal THEN PF("pf_77", "pf_83", [applied EXCEPT !.fh = TRUE])
    ELSE PF("pf_77", "pf_79", applied)

\* elif self.flip_vertical: cv2.flip(processed, 0)
pf_flip_v_only ==
    IF flip_vertical THEN PF("pf_79", "pf_83", [applied EXCEPT !.fv = TRUE])
    ELSE PF("pf_79", "pf_83", applied)

\* if self.crop_region:
pf_crop ==
    IF crop_region # NoCrop THEN PF("pf_83", "pf_84", applied)
    ELSE PF("pf_83", "done", applied)

\* x, y, w, h = self.crop_region: None does not unpack (TypeError)
pf_unpack ==
    IF crop_region = NoCrop THEN PF("pf_84", "crashed", applied)
    ELSE PF("pf_84", "done", [applied EXCEPT !.crop = crop_region])

\* processor.reset() as the caller thread runs it, one assignment at a time
Call_reset ==
    /\ Idle
    /\ Begin("reset", "reset_rot")
    /\ UNCHANGED <<feed, frames, loops, frame_callbacks, crop_region, timedout,
                   conn_result, quiesced, turn, work, mgr, reg, iph, pfv>>

\* self.rotation_angle = 0
reset_rot ==
    /\ cpc = "reset_rot"
    /\ rotation_angle' = 0
    /\ cpc' = "reset_fh"
    /\ UNCHANGED <<feed, frames, loops, frame_callbacks, crop_region, cop, pre, ret,
                   retframe, timedout, conn_result, quiesced, flip_horizontal,
                   flip_vertical, work, mgr, reg, iph, ppc, applied>>
    /\ held' = Witnessed

\* self.flip_horizontal = False
reset_fh ==
    /\ cpc = "reset_fh"
    /\ flip_horizontal' = FALSE
    /\ cpc' = "reset_fv"
    /\ UNCHANGED <<feed, frames, loops, frame_callbacks, crop_region, cop, pre, ret,
                   retframe, timedout, conn_result, quiesced, rotation_angle,
                   flip_vertical, work, mgr, reg, iph, ppc, applied>>
    /\ held' = Witnessed

\* self.flip_vertical = False
reset_fv ==
    /\ cpc = "reset_fv"
    /\ flip_vertical' = FALSE
    /\ cpc' = "reset_crop"
    /\ UNCHANGED <<feed, frames, loops, frame_callbacks, crop_region, cop, pre, ret,
                   retframe, timedout, conn_result, quiesced, rotation_angle,
                   flip_horizontal, work, mgr, reg, iph, ppc, applied>>
    /\ held' = Witnessed

\* self.crop_region = None
reset_crop ==
    /\ cpc = "reset_crop"
    /\ crop_region' = NoCrop
    /\ Finish("None")
    /\ UNCHANGED <<feed, frames, loops, frame_callbacks, cop, pre, timedout,
                   conn_result, quiesced, turn, work, mgr, reg, iph, ppc, applied>>
    /\ held' = Witnessed

\* ---- CameraManager.detect_iphone_camera
\* the indices an iPhone line of the device listing may carry
ListedIndices == {1, 6}
\* for i in range(2, 15)
ScanFirst == 2
ScanLast == 14

Call_detect_iphone_camera ==
    /\ Idle
    /\ Begin("detect_iphone_camera", "iph_list")
    /\ listing' = NoListing
    /\ scan_i' = 0
    /\ UNCHANGED <<apart, mgr, reg, pfv>>

\* subprocess.run is inside the try that spans both methods: when it raises
\* (ffmpeg absent, timeout) control goes to the except of line 378, past
\* method 2, and the function returns None.
AfterListingRaised == "return"

\* Method 1: subprocess.run(['ffmpeg', ...]) and the lines of its stderr.
\* The call raises, or no line names an iPhone or iPad (also when the tool
\* failed), or a line does, with an index.
iph_list(outcome, index) ==
    /\ cpc = "iph_list"
    /\ listing' = [how |-> outcome, idx |-> IF outcome = "listed" THEN index ELSE None]
    /\ cpc' = CASE outcome = "raised" -> AfterListingRaised
                [] outcome = "nothing" -> "iph_scan"
                [] outcome = "listed" -> "iph_verify"
    /\ scan_i' = IF outcome = "nothing" \/ (outcome = "raised" /\ AfterListingRaised = "iph_scan")
                 THEN ScanFirst ELSE scan_i
    /\ ret' = IF outcome = "raised" /\ AfterListingRaised = "return" THEN "None" ELSE ret
    /\ iphone_idx' = IF outcome = "raised" /\ AfterListingRaised = "return" THEN None
                     ELSE iphone_idx
    /\ UNCHANGED <<cop, pre, retframe>>
    /\ UNCHANGED <<available_cameras, max_cameras, available, probes, options>>
    /\ UNCHANGED <<apart, reg, pfv>>

\* test_cap = cv2.VideoCapture(iphone_index); the listed index works (return
\* iphone_index), does not open or gives no frame, or something raises (caught
\* at line 351); without a working index the lines end and method 2 begins
iph_verify(outcome) ==
    /\ cpc = "iph_verify"
    /\ listing' = [listing EXCEPT !.how = IF outcome = "works" THEN "verified" ELSE "unverified"]
    /\ IF outcome = "works"
       THEN /\ iphone_idx' = listing.idx
            /\ Finish("index")
            /\ UNCHANGED scan_i
       ELSE /\ scan_i' = ScanFirst
            /\ cpc' = "iph_scan"
            /\ UNCHANGED <<iphone_idx, ret, retframe>>
    /\ UNCHANGED <<cop, pre>>
    /\ UNCHANGED <<available_cameras, max_cameras, available, probes, options>>
    /\ UNCHANGED <<apart, reg, pfv>>

\* Method 2, one index: the capture opens and reads a frame of at least
\* 1920x1080 (return i), or not, or something raises (continue)
iph_scan(outcome) ==
    /\ cpc = "iph_scan"
    /\ scan_i <= ScanLast
    /\ IF outcome = "large"
       THEN /\ iphone_idx' = scan_i
            /\ Finish("index")
            /\ UNCHANGED scan_i
       ELSE /\ scan_i' = scan_i + 1
            /\ UNCHANGED <<iphone_idx, cpc, ret, retframe>>
    /\ UNCHANGED <<cop, pre, listing>>
    /\ UNCHANGED <<available_cameras, max_cameras, available, probes, options>>
    /\ UNCHANGED <<apart, reg, pfv>>

\* print("No iPhone camera detected"); return None
iph_none ==
    /\ cpc = "iph_scan"
    /\ scan_i > ScanLast
    /\ iphone_idx' = None
    /\ Finish("None")
    /\ UNCHANGED <<cop, pre, listing, scan_i>>
    /\ UNCHANGED <<available_cameras, max_cameras, available, probes, options>>
    /\ UNCHANGED <<apart, reg, pfv>>

\* ---- CameraManager: the registry of feeds
\* feeds create_camera_feed may make in one run
MaxFeeds == 3
\* the names the application registers its feeds under
Names == {"rgb_feed", "nir_feed"}

\* CameraFeed.__init__, as far as the registry is concerned: camera is whether
\* self.camera is set, handle the state of the VideoCapture the feed last held
NewFeed == [is_connected |-> FALSE, is_active |-> FALSE, camera |-> FALSE, handle |-> "none"]

\* feed.start_feed() on a feed of the registry; ok: the connect it makes succeeds
StartedFeed(f, ok) ==
    IF f.is_connected THEN [f EXCEPT !.is_active = TRUE]
    ELSE IF ok THEN [is_connected |-> TRUE, is_active |-> TRUE, camera |-> TRUE,
                     handle |-> "open"]
    ELSE [f EXCEPT !.is_connected = FALSE, !.camera = FALSE]

\* remove_feed without the disconnect.
Disconnected_Not(f) == f

\* feed.disconnect(): stop_feed(); if self.camera: release, None;
\* is_connected = False
Disconnected(f) ==
    [is_connected |-> FALSE, is_active |-> FALSE, camera |-> FALSE,
     handle |-> IF f.camera THEN "released" ELSE f.handle]

\* feed_name in self.camera_feeds
Has(cf, name) == \E j \in 1..Len(cf) : cf[j][1] = name
\* self.camera_feeds[feed_name]
FeedOf(cf, name) == cf[CHOOSE j \in 1..Len(cf) : cf[j][1] = name][2]
\* self.camera_feeds[feed_name] = feed: a new key goes last, an existing key
\* keeps its place and gets the new feed
Put(cf, name, f) ==
    IF Has(cf, name)
    THEN [j \in 1..Len(cf) |-> IF cf[j][1] = name THEN <<name, f>> ELSE cf[j]]
    ELSE Append(cf, <<name, f>>)
\* del self.camera_feeds[feed_name]
NotNamed(name, e) == e[1] # name
Del(cf, name) == SelectSeq(cf, LAMBDA e : NotNamed(name, e))
\* list(self.camera_feeds.keys())
Keys(cf) == [j \in 1..Len(cf) |-> cf[j][1]]
\* the feeds registered
Registered(cf) == {cf[j][2] : j \in 1..Len(cf)}

\* manager.create_camera_feed(camera_index, feed_name): feed = CameraFeed(...);
\* self.camera_feeds[feed_name] = feed; return feed
create_camera_feed(name) ==
    /\ Idle
    /\ Len(feeds) < MaxFeeds
    /\ Begin("create_camera_feed", "return")
    /\ feeds' = Append(feeds, NewFeed)
    /\ camera_feeds' = Put(camera_feeds, name, Len(feeds) + 1)
    /\ UNCHANGED <<pending, rname>>
    /\ UNCHANGED <<apart, mgr, iph, pfv>>

\* The application starts a feed it got from create_camera_feed
\* (toggle_connection) and that it has not removed.
feed_start(f, ok) ==
    /\ Idle
    /\ f \in Registered(camera_feeds)
    /\ feeds[f] # StartedFeed(feeds[f], ok)
    /\ feeds' = [feeds EXCEPT ![f] = StartedFeed(@, ok)]
    /\ UNCHANGED <<camera_feeds, pending, rname, callv>>
    /\ UNCHANGED <<feed, frames, loops, frame_callbacks, crop_region, turn, work, mgr, iph, pfv>>

\* The application disconnects a feed it got from create_camera_feed.
feed_disconnect(f) ==
    /\ Idle
    /\ f \in 1..Len(feeds)
    /\ feeds[f] # Disconnected(feeds[f])
    /\ feeds' = [feeds EXCEPT ![f] = Disconnected(@)]
    /\ UNCHANGED <<camera_feeds, pending, rname, callv>>
    /\ UNCHANGED <<feed, frames, loops, frame_callbacks, crop_region, turn, work, mgr, iph, pfv>>

\* manager.remove_feed(feed_name)
Call_remove_feed(name) ==
    /\ Idle
    /\ Begin("remove_feed", "rem_check")
    /\ rname' = name
    /\ UNCHANGED <<camera_feeds, feeds, pending>>
    /\ UNCHANGED <<apart, mgr, iph, pfv>>

\* Where remove_feed returns to: its caller, or cleanup's loop.
AfterRemove(op) == IF op = "cleanup" THEN "clean_next" ELSE "return"

\* if feed_name in self.camera_feeds:
rem_check ==
    /\ cpc = "rem_check"
    /\ cpc' = IF Has(camera_feeds, rname) THEN "rem_disconnect" ELSE AfterRemove(cop)
    /\ ret' = IF ~Has(camera_feeds, rname) /\ AfterRemove(cop) = "return" THEN "None" ELSE ret
    /\ UNCHANGED <<cop, pre, retframe>>
    /\ UNCHANGED reg
    /\ UNCHANGED <<apart, mgr, iph, pfv>>

\* feed = self.camera_feeds[feed_name]; feed.disconnect()
rem_disconnect ==
    /\ cpc = "rem_disconnect"
    /\ feeds' = [feeds EXCEPT ![FeedOf(camera_feeds, rname)] = Disconnected(@)]
    /\ cpc' = "rem_del"
    /\ UNCHANGED <<cop, pre, ret, retframe>>
    /\ UNCHANGED <<camera_feeds, pending, rname>>
    /\ UNCHANGED <<apart, mgr, iph, pfv>>

\* del self.camera_feeds[feed_name]
rem_del ==
    /\ cpc = "rem_del"
    /\ camera_feeds' = Del(camera_feeds, rname)
    /\ cpc' = AfterRemove(cop)
    /\ ret' = IF AfterRemove(cop) = "return" THEN "None" ELSE ret
    /\ UNCHANGED <<cop, pre, retframe>>
    /\ UNCHANGED <<feeds, pending, rname>>
    /\ UNCHANGED <<apart, mgr, iph, pfv>>

\* manager.cleanup(): for feed_name in list(self.camera_feeds.keys())
Call_cleanup ==
    /\ Idle
    /\ Begin("cleanup", "clean_next")
    /\ pending' = Keys(camera_feeds)
    /\ UNCHANGED <<camera_feeds, feeds, rname>>
    /\ UNCHANGED <<apart, mgr, iph, pfv>>

\* the next name of the list: self.remove_feed(feed_name); or the list is done
clean_next ==
    /\ cpc = "clean_next"
    /\ IF pending = <<>>
       THEN /\ Finish("None")
            /\ UNCHANGED <<pending, rname>>
       ELSE /\ rname' = Head(pending)
            /\ pending' = Tail(pending)
            /\ cpc' = "rem_check"
            /\ UNCHANGED <<ret, retframe>>
    /\ UNCHANGED <<cop, pre>>
    /\ UNCHANGED <<camera_feeds, feeds>>
    /\ UNCHANGED <<apart, mgr, iph, pfv>>

\* ---- connect (also as called by start_feed)

\* connect has no guard on is_connected: every call opens a new VideoCapture.
Call_connect ==
    /\ Idle
    /\ Len(handles) < MaxHandles
    /\ Begin("connect", "connect_open")
    /\ UNCHANGED <<feed, frames, loops, frame_callbacks, crop_region, timedout, conn_result, quiesced>>
    /\ UNCHANGED outside

\* self.camera = cv2.VideoCapture(...); if self.camera.isOpened()
\* outcome: the device opened, did not open, or the constructor raised
connect_open(outcome) ==
    /\ cpc = "connect_open"
    /\ \/ /\ outcome = "opened"
          /\ handles' = Append(handles, "open")
          /\ camera' = Len(handles) + 1
          /\ cpc' = "connect_probe"
          /\ conn_result' = "opened"
       \/ /\ outcome = "unopened"
          /\ handles' = Append(handles, "failed")
          /\ camera' = Len(handles) + 1
          /\ cpc' = "connect_fail"
          /\ conn_result' = "unopened"
       \/ /\ outcome = "raised"
          /\ handles' = handles
          /\ camera' = camera
          /\ cpc' = "connect_fail"
          /\ conn_result' = "raised"
    /\ UNCHANGED <<retframe, is_active, is_connected, stop_capture, capture_thread, nthreads,
                   frames, loops, frame_callbacks, crop_region, cop, pre, ret,
                   timedout, quiesced>>
    /\ UNCHANGED outside

\* start_feed going on after a failed connect().
AfterConnect_Ignored(op, ok) == IF op = "start_feed" THEN "start_check" ELSE "return"

\* What start_feed does once its connect() has succeeded, and once it failed.
AfterConnect(op, ok) ==
    IF ok
    THEN IF op = "start_feed" THEN "start_check" ELSE "return"
    ELSE "return"

\* The failed probe without camera.release().
ProbeFailState_Leaked(h) == handles[h]

\* The state a failed probe leaves the handle in: camera.release().
ProbeFailState(h) == "released"

\* ret, frame = self.camera.read(): the liveness probe
connect_probe(ok) ==
    /\ cpc = "connect_probe"
    /\ IF ok /\ IsOpened(camera)
       THEN /\ is_connected' = TRUE
            /\ cpc' = AfterConnect(cop, TRUE)
            /\ ret' = IF AfterConnect(cop, TRUE) = "return" THEN "True" ELSE ret
            /\ handles' = handles
            /\ conn_result' = "probe_ok"
       ELSE /\ handles' = [handles EXCEPT ![camera] = ProbeFailState(camera)]
            /\ cpc' = "connect_fail"
            /\ conn_result' = "probe_failed"
            /\ UNCHANGED <<is_connected, ret>>
    /\ UNCHANGED <<retframe, camera, is_active, stop_capture, capture_thread, nthreads,
                   frames, loops, frame_callbacks, crop_region, cop, pre,
                   timedout, quiesced>>
    /\ UNCHANGED outside

\* The value of self.camera after a failed connect.
FailedCamera(cam) == 0

\* self.camera = None; self.is_connected = False; return False
connect_fail ==
    /\ cpc = "connect_fail"
    /\ camera' = FailedCamera(camera)
    /\ is_connected' = FALSE
    /\ cpc' = AfterConnect(cop, FALSE)
    /\ ret' = IF AfterConnect(cop, FALSE) = "return" THEN "False" ELSE ret
    /\ UNCHANGED <<retframe, handles, is_active, stop_capture, capture_thread, nthreads,
                   frames, loops, frame_callbacks, crop_region, cop, pre,
                   timedout, conn_result, quiesced>>
    /\ UNCHANGED outside

\* ---- stop_feed (also as called by disconnect)

Call_stop_feed ==
    /\ Idle
    /\ Begin("stop_feed", "stop_set")
    /\ UNCHANGED <<feed, frames, loops, frame_callbacks, crop_region, timedout, conn_result, quiesced>>
    /\ UNCHANGED outside

Call_disconnect ==
    /\ Idle
    /\ Begin("disconnect", "stop_set")
    /\ UNCHANGED <<feed, frames, loops, frame_callbacks, crop_region, timedout, conn_result, quiesced>>
    /\ UNCHANGED outside

\* self.stop_capture = True
stop_set ==
    /\ cpc = "stop_set"
    /\ stop_capture' = TRUE
    /\ cpc' = "stop_join"
    /\ UNCHANGED <<retframe, camera, handles, is_active, is_connected, capture_thread, nthreads,
                   frames, loops, frame_callbacks, crop_region, cop, pre, ret,
                   timedout, conn_result, quiesced>>
    /\ UNCHANGED outside

\* A join that does not wait for the thread.
JoinReturns_NoWait(thr) == TRUE

\* Thread.join returns before its timeout only once the thread has finished
\* (there is nothing to join when capture_thread is None or not alive).
JoinReturns(thr) == thr = 0 \/ ~Alive(thr)

\* join(timeout=1.0) gives up on a thread that is still alive after a second.
JoinTimesOut(thr) == thr # 0 /\ Alive(thr)

\* stop_feed going on to release the device as disconnect does.
AfterStop_Release(op) == "disc_release"

\* Where stop_feed's caller goes on.
AfterStop(op) == IF op = "disconnect" THEN "disc_release" ELSE "return"

\* stop_feed leaving is_active as it found it.
StoppedActive_Kept(act) == act

\* The value stop_feed leaves in is_active.
StoppedActive(act) == FALSE

\* if self.capture_thread and self.capture_thread.is_alive(): join(timeout=1.0)
\* self.is_active = False
stop_join(expired) ==
    /\ cpc = "stop_join"
    /\ IF expired THEN JoinTimesOut(capture_thread) ELSE JoinReturns(capture_thread)
    /\ timedout' = (timedout \/ expired)
    /\ is_active' = StoppedActive(is_active)
    /\ quiesced' = TRUE
    /\ cpc' = AfterStop(cop)
    /\ ret' = IF AfterStop(cop) = "return" THEN "None" ELSE ret
    /\ UNCHANGED <<retframe, camera, handles, is_connected, stop_capture, capture_thread,
                   nthreads, frames, loops, frame_callbacks, crop_region, cop, pre,
                   conn_result>>
    /\ UNCHANGED outside

\* disconnect without camera.release().
ReleasedState_Leaked(h) == handles[h]

\* The state disconnect leaves the handle in: camera.release().
ReleasedState(h) == "released"

\* if self.camera: self.camera.release()
disc_release ==
    /\ cpc = "disc_release"
    /\ handles' = IF camera # 0
                  THEN [handles EXCEPT ![camera] = ReleasedState(camera)]
                  ELSE handles
    /\ cpc' = "disc_none"
    /\ UNCHANGED <<retframe, camera, is_active, is_connected, stop_capture, capture_thread,
                   nthreads, frames, loops, frame_callbacks, crop_region, cop, pre,
                   ret, timedout, conn_result, quiesced>>
    /\ UNCHANGED outside

\* self.camera = None; self.is_connected = False
disc_none ==
    /\ cpc = "disc_none"
    /\ camera' = 0
    /\ is_connected' = FALSE
    /\ Finish("None")
    /\ UNCHANGED <<handles, is_active, stop_capture, capture_thread, nthreads,
                   frames, loops, frame_callbacks, crop_region, cop, pre,
                   timedout, conn_result, quiesced>>
    /\ UNCHANGED outside

\* ---- start_feed

\* if not self.is_connected: if not self.connect(): return False
Call_start_feed ==
    /\ Idle
    /\ is_connected \/ Len(handles) < MaxHandles
    /\ (is_connected /\ is_active) \/ nthreads < MaxThreads
    /\ Begin("start_feed", IF is_connected THEN "start_check" ELSE "connect_open")
    /\ quiesced' = FALSE
    /\ UNCHANGED <<feed, frames, loops, frame_callbacks, crop_region, timedout, conn_result>>
    /\ UNCHANGED outside

\* start_feed without the is_active guard.
AlreadyActive_Unchecked(act) == FALSE

\* if self.is_active: return True
AlreadyActive(act) == act

start_check ==
    /\ cpc = "start_check"
    /\ IF AlreadyActive(is_active)
       THEN Finish("True")
       ELSE /\ cpc' = "start_clear" /\ UNCHANGED <<ret, retframe>>
    /\ UNCHANGED <<feed, frames, loops, frame_callbacks, crop_region, cop, pre,
                   timedout, conn_result, quiesced>>
    /\ UNCHANGED outside

\* start_feed leaving the stop signal as it found it.
ClearedStop_Kept(stop) == stop

\* The stop signal start_feed leaves for the thread it is about to spawn.
ClearedStop(stop) == FALSE

\* self.stop_capture = False
start_clear ==
    /\ cpc = "start_clear"
    /\ stop_capture' = ClearedStop(stop_capture)
    /\ cpc' = "start_spawn"
    /\ UNCHANGED <<retframe, camera, handles, is_active, is_connected, capture_thread, nthreads,
                   frames, loops, frame_callbacks, crop_region, cop, pre, ret,
                   timedout, conn_result, quiesced>>
    /\ UNCHANGED outside

\* self.capture_thread = threading.Thread(...); .start(); self.is_active = True
start_spawn ==
    /\ cpc = "start_spawn"
    /\ nthreads < MaxThreads
    /\ nthreads' = nthreads + 1
    /\ capture_thread' = nthreads + 1
    /\ tpc' = [tpc EXCEPT ![nthreads + 1] = "check_stop"]
    /\ is_active' = TRUE
    /\ Finish("True")
    /\ UNCHANGED <<camera, handles, is_connected, stop_capture, frames, tframe, idx,
                   calls, clean, clock, frame_callbacks, crop_region, cop, pre,
                   timedout, conn_result, quiesced>>
    /\ UNCHANGED outside

\* ---- get_current_frame

Call_get_current_frame(processed) ==
    /\ Idle
    /\ Begin(IF processed THEN "get_processed" ELSE "get_raw", "get_lock")
    /\ UNCHANGED <<feed, frames, loops, frame_callbacks, crop_region, timedout, conn_result, quiesced>>
    /\ UNCHANGED outside

\* with self.frame_lock:
get_lock ==
    /\ cpc = "get_lock"
    /\ frame_lock = 0
    /\ frame_lock' = Caller
    /\ cpc' = "get_copy"
    /\ UNCHANGED <<retframe, feed, current_frame, processed_frame, loops, frame_callbacks,
                   crop_region, cop, pre, ret, timedout, conn_result, quiesced>>
    /\ UNCHANGED outside

\* get_current_frame handing out the stored array itself.
ReturnedFrame_Shared(frame) == frame

\* self.processed_frame.copy() / self.current_frame.copy()
ReturnedFrame(frame) == CopyAs(frame, "copy")

\* return self.processed_frame.copy() / self.current_frame.copy(), or None
get_copy ==
    /\ cpc = "get_copy"
    /\ frame_lock' = 0
    /\ LET f == IF cop = "get_processed" THEN processed_frame ELSE current_frame
       IN  IF f = NoFrame THEN Finish("None") ELSE FinishFrame(ReturnedFrame(f))
    /\ UNCHANGED <<feed, current_frame, processed_frame, loops, frame_callbacks,
                   crop_region, cop, pre, timedout, conn_result, quiesced>>
    /\ UNCHANGED outside

\* ---- capture_frame

Call_capture_frame(processed) ==
    /\ Idle
    /\ Begin(IF processed THEN "capture_processed" ELSE "capture_raw", "cap_check")
    /\ UNCHANGED <<feed, frames, loops, frame_callbacks, crop_region, timedout, conn_result, quiesced>>
    /\ UNCHANGED outside

\* capture_frame without its guard.
NotCapturing_Unchecked(act, cam) == FALSE

\* if not self.is_active or not self.camera
NotCapturing(act, cam) == ~act \/ cam = 0

\* if not self.is_active or not self.camera: return None
cap_check ==
    /\ cpc = "cap_check"
    /\ IF NotCapturing(is_active, camera)
       THEN Finish("None")
       ELSE /\ cpc' = "cap_read" /\ UNCHANGED <<ret, retframe>>
    /\ UNCHANGED <<feed, frames, loops, frame_callbacks, crop_region, cop, pre,
                   timedout, conn_result, quiesced>>
    /\ UNCHANGED outside

\* capture_frame storing what it read as the feed's frame.
StoredAfterCapture_Published(stored, frame) == frame

\* What capture_frame leaves in current_frame and processed_frame: it assigns
\* neither.
StoredAfterCapture(stored, frame) == stored

\* ret, frame = self.camera.read(); if ret: return process_frame(frame) or frame;
\* return None.  None has no read (AttributeError).  The settings process_frame
\* reads are written by this thread only.
cap_read(ok) ==
    /\ cpc = "cap_read"
    /\ IF camera = 0
       THEN /\ Finish("raised")
            /\ UNCHANGED <<clock, current_frame, processed_frame>>
       ELSE IF ok /\ IsOpened(camera) /\ clock < MaxReads
       THEN LET frame == DeviceFrame(clock + 1)
                out == IF cop = "capture_processed"
                       THEN process_frame(frame, crop_region)
                       ELSE frame
            IN  /\ clock' = clock + 1
                /\ FinishFrame(out)
                /\ current_frame' = StoredAfterCapture(current_frame, frame)
                /\ processed_frame' = StoredAfterCapture(processed_frame, out)
       ELSE /\ Finish("None")
            /\ UNCHANGED <<clock, current_frame, processed_frame>>
    /\ UNCHANGED <<feed, frame_lock, tpc, tframe, idx, calls, clean, frame_callbacks,
                   crop_region, cop, pre, timedout, conn_result, quiesced>>
    /\ UNCHANGED outside

\* ---- the device

\* The device of the feed reports closed (unplugged): isOpened() turns False.
DeviceCloses(h) ==
    /\ h \in 1..Len(handles)
    /\ h = camera
    /\ handles[h] = "open"
    /\ handles' = [handles EXCEPT ![h] = "closed"]
    /\ UNCHANGED <<camera, is_active, is_connected, stop_capture, capture_thread,
                   nthreads, frames, loops, frame_callbacks, crop_region, callv>>
    /\ UNCHANGED outside

\* ------------------------------------------------------------- _capture_loop
\* while not self.stop_capture and self.camera and self.camera.isOpened():

Goto(t, pc) == tpc' = [tpc EXCEPT ![t] = pc]

\* time.sleep(1/30), then `not self.stop_capture`
loop_check_stop(t) ==
    /\ tpc[t] = "check_stop"
    /\ Goto(t, IF stop_capture THEN "exited" ELSE "check_cam")
    /\ UNCHANGED <<feed, frames, tframe, idx, calls, clean, clock, frame_callbacks,
                   crop_region, callv>>
    /\ UNCHANGED outside

\* `and self.camera`
loop_check_cam(t) ==
    /\ tpc[t] = "check_cam"
    /\ Goto(t, IF camera = 0 THEN "exited" ELSE "check_open")
    /\ UNCHANGED <<feed, frames, tframe, idx, calls, clean, clock, frame_callbacks,
                   crop_region, callv>>
    /\ UNCHANGED outside

\* `and self.camera.isOpened()`: self.camera is loaded again, and None has no
\* isOpened (AttributeError ends the thread)
loop_check_open(t) ==
    /\ tpc[t] = "check_open"
    /\ Goto(t, IF camera = 0 THEN "crashed"
               ELSE IF IsOpened(camera) THEN "read" ELSE "exited")
    /\ UNCHANGED <<feed, frames, tframe, idx, calls, clean, clock, frame_callbacks,
                   crop_region, callv>>
    /\ UNCHANGED outside

\* ret, frame = self.camera.read(); if ret: ... ; a released or closed capture
\* returns (False, None)
loop_read(t, ok) ==
    /\ tpc[t] = "read"
    /\ IF camera = 0
       THEN /\ Goto(t, "crashed")
            /\ UNCHANGED <<tframe, calls, clean, clock>>
       ELSE IF ok /\ IsOpened(camera) /\ clock < MaxReads
       THEN /\ clock' = clock + 1
            /\ tframe' = [tframe EXCEPT ![t] = DeviceFrame(clock + 1)]
            /\ calls' = [calls EXCEPT ![t] = <<>>]
            /\ clean' = [clean EXCEPT ![t] = TRUE]
            /\ Goto(t, "lock")
       ELSE /\ Goto(t, "skip")
            /\ UNCHANGED <<tframe, calls, clean, clock>>
    /\ UNCHANGED <<feed, frames, idx, frame_callbacks, crop_region, callv>>
    /\ UNCHANGED outside

\* A loop that gives up when a read fails.
AfterFailedRead_GiveUp == "exited"

\* Where the loop goes on after a failed read: the next cycle.
AfterFailedRead == "check_stop"

\* `if ret:` is False: nothing is done with the frame
loop_skip(t) ==
    /\ tpc[t] = "skip"
    /\ Goto(t, AfterFailedRead)
    /\ UNCHANGED <<feed, frames, tframe, idx, calls, clean, clock, frame_callbacks,
                   crop_region, callv>>
    /\ UNCHANGED outside

\* with self.frame_lock: self.current_frame = frame.copy()
loop_lock(t) ==
    /\ tpc[t] = "lock"
    /\ frame_lock = 0
    /\ frame_lock' = t
    /\ current_frame' = CopyAs(tframe[t], "cur")
    /\ Goto(t, "proc_crop")
    /\ UNCHANGED <<feed, processed_frame, tframe, idx, calls, clean, clock,
                   frame_callbacks, crop_region, callv>>
    /\ UNCHANGED outside

\* The frame the loop stores as processed_frame for the raw frame it read.
StoredProcessed(frame, crop) == process_frame(frame, crop)

\* A loop that keeps frame_lock while it notifies.
LockAfterWith_Held(t) == t

\* The holder of frame_lock once the with block of thread t has ended: nobody.
LockAfterWith(t) == 0

\* self.processed_frame = ...; the with block ends
StoreProcessed(t, crop) ==
    /\ processed_frame' = StoredProcessed(tframe[t], crop)
    /\ frame_lock' = LockAfterWith(t)
    /\ idx' = [idx EXCEPT ![t] = 0]
    /\ clean' = [u \in Threads |-> clean[u] /\ (u = t \/ tpc[u] # "notify")]
    /\ Goto(t, "notify")

\* process_frame: `if self.crop_region:`
loop_proc_crop(t) ==
    /\ tpc[t] = "proc_crop"
    /\ IF crop_region # NoCrop
       THEN /\ Goto(t, "proc_unpack")
            /\ UNCHANGED <<processed_frame, frame_lock, idx, clean>>
       ELSE StoreProcessed(t, NoCrop)
    /\ UNCHANGED <<feed, current_frame, tframe, calls, clock, frame_callbacks,
                   crop_region, callv>>
    /\ UNCHANGED outside

\* process_frame: `x, y, w, h = self.crop_region`: crop_region is loaded again, and
\* None does not unpack (TypeError leaves the with block and ends the thread)
loop_proc_unpack(t) ==
    /\ tpc[t] = "proc_unpack"
    /\ IF crop_region = NoCrop
       THEN /\ frame_lock' = 0
            /\ Goto(t, "crashed")
            /\ tframe' = [tframe EXCEPT ![t] = NoFrame]
            /\ UNCHANGED <<processed_frame, idx, clean>>
       ELSE /\ StoreProcessed(t, crop_region)
            /\ UNCHANGED tframe
    /\ UNCHANGED <<feed, current_frame, calls, clock, frame_callbacks,
                   crop_region, callv>>
    /\ UNCHANGED outside

\* The loop without the try/except around the callback.
AfterCallback_Uncaught(cb) == IF Raises(cb) THEN "crashed" ELSE "notify"

\* try: callback(self.processed_frame) except Exception: print(...)
\* where the thread goes after the callback returned or raised
AfterCallback(cb) == "notify"

\* callback(self.processed_frame): the argument is the stored array itself
CallbackArg(frame) == frame

\* for callback in self.frame_callbacks: the list iterator takes the element at
\* its index from the list as it is now, and ends when the index is past the end
loop_notify(t) ==
    /\ tpc[t] = "notify"
    /\ IF idx[t] < Len(frame_callbacks)
       THEN LET cb == frame_callbacks[idx[t] + 1]
            IN  /\ calls' = [calls EXCEPT ![t] =
                               Append(@, <<cb, CallbackArg(processed_frame).inst,
                                           CallbackArg(processed_frame).buf>>)]
                /\ idx' = [idx EXCEPT ![t] = @ + 1]
                /\ Goto(t, AfterCallback(cb))
                /\ UNCHANGED <<tframe, clean>>
       ELSE \* the pass is over: the locals are dead until the next read
            /\ Goto(t, "check_stop")
            /\ idx' = [idx EXCEPT ![t] = 0]
            /\ calls' = [calls EXCEPT ![t] = <<>>]
            /\ tframe' = [tframe EXCEPT ![t] = NoFrame]
            /\ clean' = [clean EXCEPT ![t] = TRUE]
    /\ UNCHANGED <<feed, frames, clock, frame_callbacks, crop_region, callv>>
    /\ UNCHANGED outside

\* ------------------------------------------------------------- specification
\* the body of connect
Connecting ==
    \/ \E outcome \in {"opened", "unopened", "raised"} : connect_open(outcome)
    \/ \E ok \in BOOLEAN : connect_probe(ok)
    \/ connect_fail

\* stop_feed
Stopping ==
    \/ Call_stop_feed
    \/ stop_set
    \/ \E expired \in BOOLEAN : stop_join(expired)

\* start_feed (with the connect it makes) and stop_feed
StartStop ==
    \/ Return
    \/ Call_start_feed
    \/ Connecting
    \/ start_check
    \/ start_clear
    \/ start_spawn
    \/ Stopping

\* connect and disconnect called by the application, and the device closing
ConnectDisconnect ==
    \/ Call_connect
    \/ Call_disconnect
    \/ disc_release
    \/ disc_none
    \/ \E h \in 1..MaxHandles : DeviceCloses(h)

Subscribers ==
    \/ \E cb \in Callbacks : add_frame_callback(cb)
    \/ \E cb \in Callbacks : remove_frame_callback(cb)

\* the transform settings, and the loop's second read of them
Settings ==
    \/ set_crop_region
    \/ clear_crop
    \/ \E t \in Threads : loop_proc_unpack(t)

\* the transform settings and the frame accessor
SettingsAndReader ==
    \/ Settings
    \/ \E processed \in BOOLEAN : Call_get_current_frame(processed)
    \/ get_lock
    \/ get_copy

\* the on-demand capture
OnDemand ==
    \/ \E processed \in BOOLEAN : Call_capture_frame(processed)
    \/ cap_check
    \/ \E ok \in BOOLEAN : cap_read(ok)

CaptureLoop ==
    \/ \E t \in Threads : loop_check_stop(t)
    \/ \E t \in Threads : loop_check_cam(t)
    \/ \E t \in Threads : loop_check_open(t)
    \/ \E t \in Threads, ok \in BOOLEAN : loop_read(t, ok)
    \/ \E t \in Threads : loop_skip(t)
    \/ \E t \in Threads : loop_lock(t)
    \/ \E t \in Threads : loop_proc_crop(t)
    \/ \E t \in Threads : loop_notify(t)

\* The whole feed.
Next ==
    \/ StartStop \/ ConnectDisconnect \/ Subscribers \/ SettingsAndReader
    \/ OnDemand \/ CaptureLoop
Spec == Init /\ [][Next]_vars

\* The feed without subscribers: the life cycle, the device, the transform
\* settings and the frame pair.
NextFeed == StartStop \/ ConnectDisconnect \/ SettingsAndReader \/ OnDemand \/ CaptureLoop
SpecFeed == Init /\ [][NextFeed]_vars

\* The feed with its subscribers: capture started and stopped while callbacks
\* are subscribed and unsubscribed and the transform settings changed.
NextNotify == StartStop \/ Subscribers \/ Settings \/ CaptureLoop
SpecNotify == Init /\ [][NextNotify]_vars

\* The feed before capture is ever started: connected, disconnected, subscribed
\* to and stopped, without a capture thread.
NextUnstarted == Return \/ Connecting \/ Stopping \/ ConnectDisconnect \/ Subscribers
SpecUnstarted == Init /\ [][NextUnstarted]_vars

\* the setters of the rotation and the flips
Turning ==
    \/ \E angle \in Angles : set_rotation(angle)
    \/ rotate_clockwise
    \/ rotate_counterclockwise
    \/ toggle_flip_horizontal
    \/ toggle_flip_vertical
    \/ reset

\* An ImageProcessor by itself: its setters, with crop rectangles of all kinds,
\* and process_frame called on an image.
NextProcessor ==
    \/ Turning
    \/ \E x \in Coords, y \in Coords, w \in Sizes, h \in Sizes : set_crop_region_xywh(x, y, w, h)
    \/ clear_crop
    \/ \E img \in Images : call_process_frame(img)
    \/ Return
SpecProcessor == Init /\ [][NextProcessor]_vars

\* The settings of a processor saved to a dictionary and loaded into another.
NextSettings ==
    \/ Turning
    \/ set_crop_region
    \/ clear_crop
    \/ get_settings_dict
    \/ load_settings_dict
    \/ \E prior \in OtherSettings : other_changes(prior)
    \/ Return
SpecSettings == Init /\ [][NextSettings]_vars

\* The manager by itself: cameras detected and the options listed.
Detecting ==
    \/ \E limit \in 0..MaxCameras : Call_detect_cameras(limit)
    \/ \E how \in {"raised", "unopened", "opened"} : det_open(how)
    \/ \E what \in {"frame", "no_frame", "raised"} : det_read(what)
    \/ det_release
    \/ det_done
NextManager ==
    \/ Detecting
    \/ \E found \in IPhoneResults : get_available_camera_options(found)
    \/ Return
SpecManager == Init /\ [][NextManager]_vars

\* The registry of the manager: feeds created under names, started and
\* disconnected by the application, removed one by one and all at once.
Removing ==
    \/ \E name \in Names : Call_remove_feed(name)
    \/ rem_check
    \/ rem_disconnect
    \/ rem_del
    \/ Call_cleanup
    \/ clean_next
NextRegistry ==
    \/ \E name \in Names : create_camera_feed(name)
    \/ \E f \in 1..MaxFeeds, ok \in BOOLEAN : feed_start(f, ok)
    \/ \E f \in 1..MaxFeeds : feed_disconnect(f)
    \/ Removing
    \/ Return
SpecRegistry == Init /\ [][NextRegistry]_vars

\* detect_iphone_camera by itself.
NextIPhone ==
    \/ Call_detect_iphone_camera
    \/ \E outcome \in {"raised", "nothing", "listed"}, index \in ListedIndices :
           iph_list(outcome, index)
    \/ \E outcome \in {"works", "dead", "raised"} : iph_verify(outcome)
    \/ \E outcome \in {"large", "other", "raised"} : iph_scan(outcome)
    \/ iph_none
    \/ Return
SpecIPhone == Init /\ [][NextIPhone]_vars

\* The feed with its subscribers and a reader: capture started and stopped
\* while callbacks are subscribed and get_current_frame is called.
Reader ==
    \/ \E processed \in BOOLEAN : Call_get_current_frame(processed)
    \/ get_lock
    \/ get_copy
NextWatched == StartStop \/ Subscribers \/ Reader \/ CaptureLoop
SpecWatched == Init /\ [][NextWatched]_vars

\* process_frame running on a capture thread while the caller edits the
\* settings, a bounded number of times per call.
ProcessFrameSteps ==
    \/ pf_begin
    \/ pf_rot90 \/ pf_rot180 \/ pf_rot270
    \/ pf_flip_h \/ pf_flip_hv \/ pf_flip_h_only \/ pf_flip_v_only
    \/ pf_crop \/ pf_unpack
Editing ==
    \/ rotate_clockwise
    \/ toggle_flip_horizontal
    \/ toggle_flip_vertical
    \/ set_crop_region
    \/ clear_crop
    \/ Call_reset
    \/ reset_rot \/ reset_fh \/ reset_fv \/ reset_crop
NextEditing ==
    \/ ProcessFrameSteps
    \/ (Cardinality(held) <= MaxEdits /\ Editing)
    \/ Return
SpecEditing == Init /\ [][NextEditing]_vars

\* ---- fair scheduling
\* A capture thread takes its next step; a read of an open device succeeds.
LoopCycle(t) ==
    \/ loop_check_stop(t)
    \/ loop_check_cam(t)
    \/ loop_check_open(t)
    \/ loop_read(t, TRUE)
    \/ loop_skip(t)
    \/ loop_lock(t)
    \/ loop_proc_crop(t)
    \/ loop_notify(t)
\* the same with the second read of the crop, when a crop has been set
LoopStep(t) == LoopCycle(t) \/ loop_proc_unpack(t)

\* Every capture thread that can take a step eventually takes one: the threads
\* are daemon threads of the interpreter, each sleeping 1/30 s per cycle.
FairLoops == \A t \in Threads : WF_vars(LoopStep(t))

\* starting a feed
Starting ==
    \/ Call_start_feed
    \/ Connecting
    \/ start_check
    \/ start_clear
    \/ start_spawn

\* A feed that is started and captures from a device that stays open and
\* whose reads succeed, while callbacks are subscribed and the crop is edited.
NextLive ==
    \/ Return
    \/ Starting
    \/ \E cb \in Callbacks : add_frame_callback(cb)
    \/ set_crop_region
    \/ clear_crop
    \/ \E t \in Threads : LoopStep(t)
SpecLive == Init /\ [][NextLive]_vars /\ FairLoops

\* A feed started, stopped and started again, on a device whose reads return,
\* so that no join times out.
NextRestart ==
    \/ Return
    \/ Starting
    \/ Call_stop_feed
    \/ stop_set
    \/ stop_join(FALSE)
    \/ \E t \in Threads : LoopCycle(t)
SpecRestart == Init /\ [][NextRestart]_vars /\ FairLoops

\* ------------------------------------------------------------- claims
Returned(op) == cpc = "return" /\ cop = op

\* C1: in every reachable state of one feed, whatever the interleaving of connect,
\* start_feed, stop_feed and disconnect with the loop (join timeouts included), at
\* most one _capture_loop thread is running.
C1_AtMostOneCaptureLoop == Cardinality(Running) <= 1

\* C2: while a capture loop runs and frame_lock is not held, current_frame and
\* processed_frame stem from the same device read (a pair not yet stored, or stored
\* only in part, is not taken for a pair of two capture instants).
C2_ConsistentFramePair ==
    (Running # {} /\ frame_lock = 0 /\ current_frame # NoFrame /\ processed_frame # NoFrame)
        => current_frame.inst = processed_frame.inst

\* The thread has been through the list: its iterator is at the end.
PassDone(t) == tpc[t] = "notify" /\ idx[t] >= Len(frame_callbacks)

\* Every subscriber was invoked once, in list order, with the frame of the cycle.
Delivered(t) ==
    /\ Len(calls[t]) = Len(frame_callbacks)
    /\ \A i \in 1..Len(frame_callbacks) :
           /\ calls[t][i][1] = frame_callbacks[i]
           /\ calls[t][i][2] = tframe[t].inst

\* Thread t invokes a callback that raises.
RaisingCall(t) ==
    /\ tpc[t] = "notify"
    /\ idx[t] < Len(frame_callbacks)
    /\ Raises(frame_callbacks[idx[t] + 1])
    /\ idx'[t] = idx[t] + 1

\* C3: a callback that raises on every invocation does not end the loop, and in a
\* cycle with a successful read that ran undisturbed (the list was not changed
\* during the pass and no other loop replaced the processed frame) every subscribed
\* callback is invoked with that cycle's processed frame.
C3_RaisingCallbackIsolated ==
    [][\A t \in Threads :
          /\ RaisingCall(t) => tpc'[t] = "notify"
          /\ (PassDone(t) /\ clean[t] => Delivered(t))']_vars

\* C3 happens: a pass over <<bad, good>> is done, and good got the cycle's frame
\* after bad raised.
C3_Witness ==
    \E t \in Threads :
        /\ PassDone(t) /\ clean[t]
        /\ frame_callbacks = <<"bad", "good">>
        /\ calls[t] = <<<<"bad", tframe[t].inst, "proc">>, <<"good", tframe[t].inst, "proc">>>>
        /\ tframe[t].inst > 0

\* C4: start_feed called while the feed is already capturing returns True and
\* spawns no capture thread, so that no loop runs beside the one the first
\* start_feed spawned (as long as no join has timed out before).
C4_SecondStartIsNoOp ==
    (Returned("start_feed") /\ pre.conn /\ pre.act)
        => /\ ret = "True"
           /\ nthreads = pre.nt
           /\ is_active /\ is_connected
           /\ ~timedout => Running \subseteq {capture_thread}

\* C4 happens: start_feed has returned on a capturing feed whose one loop runs.
C4_Witness ==
    /\ Returned("start_feed") /\ pre.conn /\ pre.act
    /\ Running = {capture_thread}
    /\ nthreads = 1

\* The handle the connect of the call in progress created.
NewHandle == pre.nh + 1

\* C5: when the device opens but the probe read yields no frame, connect returns
\* False with is_connected False, the handle it opened released and self.camera None.
C5_FailedProbeReleases ==
    (Returned("connect") /\ conn_result = "probe_failed")
        => /\ ret = "False"
           /\ ~is_connected
           /\ camera = 0
           /\ Len(handles) = NewHandle
           /\ handles[NewHandle] = "released"

\* C5 happens: connect on a disconnected feed has returned after a failed probe.
C5_Witness ==
    /\ Returned("connect") /\ conn_result = "probe_failed"
    /\ ~pre.conn /\ pre.cam = 0

\* C6: connect called while the feed is connected returns True and is a no-op: no
\* new handle is opened, and is_connected, is_active and the handle are unchanged.
C6_ConnectIdempotent ==
    (Returned("connect") /\ pre.conn)
        => /\ ret = "True"
           /\ Len(handles) = pre.nh
           /\ camera = pre.cam
           /\ is_connected
           /\ is_active = pre.act

\* C7: whenever no call is in progress, is_active implies is_connected.
C7_ActiveImpliesConnected == Idle => (is_active => is_connected)

\* C8: disconnect, called in any state of the feed, is never blocked (its join
\* returns or times out) and completes with is_connected False, is_active False,
\* self.camera None and the handle it held released.
C8_DisconnectAlwaysDisconnects ==
    /\ (cop = "disconnect" /\ cpc = "stop_join")
           => (JoinReturns(capture_thread) \/ JoinTimesOut(capture_thread))
    /\ Returned("disconnect")
           => /\ ~is_connected
              /\ ~is_active
              /\ camera = 0
              /\ pre.cam # 0 => handles[pre.cam] = "released"

\* C8 happens: disconnect has returned on a feed that was capturing, its loop
\* still running when the join gave up.
C8_Witness ==
    /\ Returned("disconnect") /\ pre.conn /\ pre.act /\ pre.cam # 0
    /\ Running # {}

\* The connect made by start_feed failed (no device, no frame, or an exception).
ConnectFailed == conn_result \in {"unopened", "raised", "probe_failed"}

\* C9: start_feed on a feed that is not connected, whose connect attempt fails,
\* returns False, spawns no capture thread and leaves the feed as inactive as it
\* was, and disconnected.
C9_StartPropagatesConnectFailure ==
    (Returned("start_feed") /\ ~pre.conn /\ ConnectFailed)
        => /\ ret = "False"
           /\ nthreads = pre.nt
           /\ is_active = pre.act
           /\ ~is_connected
           /\ camera = 0

\* C9 happens: start_feed has returned on an idle feed after a failed probe.
C9_Witness ==
    /\ Returned("start_feed") /\ ~pre.conn /\ ~pre.act
    /\ conn_result = "probe_failed"

\* What the capture loops publish: the frame pair and the callbacks invoked.
published == <<current_frame, processed_frame, calls>>

C11_StopUnstartedIsNoOp ==
    [][(cop = "stop_feed" /\ cpc # "return" /\ nthreads = 0 /\ cpc' # cpc)
          => /\ UNCHANGED <<is_connected, camera, handles, current_frame,
                            processed_frame, frame_callbacks>>
             /\ ~is_active /\ ~is_active'
             /\ cpc = "stop_join" => (cpc' = "return" /\ ret' = "None")]_vars

\* C11 happens: stop_feed has returned on a connected, subscribed feed that never
\* captured.
C11_Witness ==
    /\ Returned("stop_feed") /\ nthreads = 0
    /\ pre.conn /\ is_connected /\ camera # 0 /\ IsOpened(camera)
    /\ frame_callbacks # <<>>
    /\ ~is_active

\* C12: stop_feed called after the capture loop has ended on its own (the device
\* reported closed) does not wait for a thread, returns None, and leaves the feed
\* inactive with is_connected and the handle as they were.
C12_StopAfterLoopExited ==
    /\ (cop = "stop_feed" /\ pre.own /\ cpc = "stop_join")
           => (~JoinTimesOut(capture_thread) /\ ~Alive(capture_thread))
    /\ (Returned("stop_feed") /\ pre.own)
           => /\ ret = "None"
              /\ ~is_active
              /\ is_connected = pre.conn
              /\ camera = pre.cam

\* C12 happens: stop_feed has returned on an active, connected feed whose loop
\* had ended because its device closed.
C12_Witness ==
    /\ Returned("stop_feed") /\ pre.own /\ pre.act /\ pre.conn
    /\ pre.cam # 0 /\ handles[pre.cam] = "closed"
    /\ tpc[capture_thread] = "exited"

\* C13: a failed device read ends neither the loop nor the thread and publishes
\* nothing: the step of the failed read and the step after it leave the frame pair
\* and the callbacks invoked unchanged, the thread has invoked no callback in that
\* cycle, and it goes on to the next cycle.
C13_FailedReadSkipsCycle ==
    [][\A t \in Threads :
          /\ (tpc[t] = "read" /\ tpc'[t] = "skip")
                 => (UNCHANGED published /\ calls[t] = <<>>)
          /\ (tpc[t] = "skip" /\ tpc'[t] # "skip")
                 => (tpc'[t] = "check_stop" /\ UNCHANGED published /\ calls'[t] = <<>>)]_vars

\* C13 happens: a read has failed on an open device in a loop that had published
\* a frame to a subscriber before.
C13_Witness ==
    \E t \in Threads :
        /\ tpc[t] = "skip"
        /\ camera # 0 /\ IsOpened(camera)
        /\ processed_frame # NoFrame /\ current_frame # NoFrame
        /\ frame_callbacks # <<>>
        /\ ~stop_capture

\* The callbacks thread t has invoked in its current cycle, in order.
InvokedNames(t) == [i \in 1..Len(calls[t]) |-> calls[t][i][1]]

\* s is r with some elements left out.
RECURSIVE IsSubseq(_, _)
IsSubseq(s, r) ==
    IF s = <<>> THEN TRUE
    ELSE IF r = <<>> THEN FALSE
    ELSE IF Head(s) = Head(r) THEN IsSubseq(Tail(s), Tail(r))
    ELSE IsSubseq(s, Tail(r))

\* C14: in every cycle with a successful read, once the loop is through the list,
\* each subscribed callback has been invoked, in subscription order (the callbacks
\* subscribed are among those invoked, in the order of the list).
C14_EachCallbackInOrder ==
    \A t \in Threads : PassDone(t) => IsSubseq(frame_callbacks, InvokedNames(t))

\* What the iterator of thread t has yet to visit in list s.
ToVisit(t, s) == SubSeq(s, idx[t] + 1, Len(s))

\* C15: when remove_frame_callback takes a callback off the list during the
\* notification pass of a loop, the loop goes on, and every callback still on the
\* list has been invoked in this cycle or is yet to be visited by the iterator.
C15_UnsubscribeSkipsNobody ==
    [][\A t \in Threads :
          (tpc[t] = "notify" /\ Len(frame_callbacks') < Len(frame_callbacks))
              => /\ tpc'[t] = "notify"
                 /\ IsSubseq(frame_callbacks',
                             InvokedNames(t) \o ToVisit(t, frame_callbacks'))]_vars

GetOps == {"get_processed", "get_raw"}

\* The stored frame get_current_frame(processed) reads.
Stored(op) == IF op = "get_processed" THEN processed_frame ELSE current_frame

\* Two frames are one array: the same capture instant in the same buffer.
SameBuffer(a, b) == a # NoFrame /\ a.inst = b.inst /\ a.buf = b.buf

\* The frame returned is no array the feed or one of its loops holds.
PrivateCopy ==
    /\ ~SameBuffer(retframe, current_frame)
    /\ ~SameBuffer(retframe, processed_frame)
    /\ \A t \in Threads : ~SameBuffer(retframe, tframe[t])

\* C16: get_current_frame returns None when the frame asked for has not been
\* stored yet, and otherwise a copy of it (same instant, same crop) in a buffer
\* that is neither current_frame's nor processed_frame's nor one a loop holds,
\* then or later while the caller has it.
C16_GetReturnsPrivateCopy ==
    [][/\ (cop \in GetOps /\ cpc = "get_copy" /\ cpc' = "return")
             => IF Stored(cop) = NoFrame
                THEN ret' = "None" /\ retframe' = NoFrame
                ELSE /\ ret' = "frame"
                     /\ retframe'.inst = Stored(cop).inst
                     /\ retframe'.crop = Stored(cop).crop
       /\ (cop' \in GetOps /\ cpc' = "return") => PrivateCopy']_vars

\* C16 happens: get_current_frame has returned the processed frame of one cycle,
\* and the loop has stored the frame of the next cycle since.
C16_Witness ==
    /\ Returned("get_processed") /\ ret = "frame"
    /\ retframe.inst = 1 /\ retframe.buf = "copy"
    /\ processed_frame.inst = 2

\* The array the i-th callback invoked by thread t in its cycle was handed.
Handed(t, i) == [inst |-> calls[t][i][2], buf |-> calls[t][i][3]]

\* C17: every frame handed to a callback is a private copy: it is not the array
\* stored in processed_frame, and no two callbacks are handed the same array.
C17_CallbacksGetPrivateCopies ==
    \A t \in Threads : \A i \in 1..Len(calls[t]) :
        /\ ~SameBuffer(processed_frame, Handed(t, i))
        /\ \A j \in 1..Len(calls[t]) : j # i => Handed(t, j) # Handed(t, i)

\* C18: a change of the transform settings changes neither the stored frame pair
\* nor a frame handed to a callback, and every frame the loop stores as processed
\* carries the settings as they are when it is processed.
C18_SettingsNotRetroactive ==
    [][/\ (crop_region' # crop_region) => UNCHANGED published
       /\ (processed_frame' # processed_frame) => processed_frame'.crop = crop_region]_vars

\* C18 happens: the second frame was published cropped and handed to a callback,
\* and the crop has been cleared since; the published frame is still the cropped one.
C18_Witness ==
    /\ processed_frame.inst = 2 /\ processed_frame.crop = Rect
    /\ crop_region = NoCrop
    /\ \E t \in Threads : Len(calls[t]) > 0 /\ calls[t][1][2] = 2

CaptureOps == {"capture_processed", "capture_raw"}

\* C19: capture_frame on a feed that is not capturing (is_active False or
\* self.camera None) returns None at its guard and never gets to a device read;
\* and when its device read fails it returns None.
C19_CaptureReturnsNone ==
    [][/\ (cop \in CaptureOps /\ cpc = "cap_check" /\ cpc' # cpc
              /\ (~is_active \/ camera = 0))
             => (cpc' = "return" /\ ret' = "None" /\ retframe' = NoFrame
                 /\ clock' = clock)
       /\ (cop \in CaptureOps /\ (~pre.act \/ pre.cam = 0) => cpc # "cap_read")'
       /\ (cop \in CaptureOps /\ cpc = "cap_read" /\ cpc' = "return"
              /\ camera # 0 /\ clock' = clock)
             => (ret' = "None" /\ retframe' = NoFrame)]_vars

\* C19 happens: capture_frame has returned None on a connected feed with a
\* working device whose capture is not started.
C19_Witness ==
    /\ cop \in CaptureOps /\ cpc = "return" /\ ret = "None"
    /\ ~pre.act /\ pre.conn /\ pre.cam # 0 /\ IsOpened(pre.cam)
    /\ clock < MaxReads

\* The stored frame pair.
pair == <<current_frame, processed_frame>>

\* C20: no step of capture_frame changes current_frame or processed_frame (the
\* frame it returns is a fresh one, newer than the stored pair); the pair is
\* written by steps of a capture loop only; and get_current_frame returns the
\* frame stored, so that after a capture_frame it returns the loop's last
\* published frame.
C20_CaptureStoresNothing ==
    [][/\ (cop \in CaptureOps /\ cpc' # cpc) => UNCHANGED pair
       /\ (cop \in CaptureOps /\ cpc = "cap_read" /\ ret' = "frame")
             => /\ retframe'.inst > current_frame'.inst
                /\ retframe'.inst > processed_frame'.inst
       /\ (pair' # pair) => \E t \in Threads : tpc'[t] # tpc[t]
       /\ (cop \in GetOps /\ cpc = "get_copy" /\ ret' = "frame")
             => retframe'.inst = Stored(cop).inst]_vars

\* C20 happens: the loop published instant 1, capture_frame read instant 2, and
\* the get_current_frame that followed has returned instant 1.
C20_Witness ==
    /\ Returned("get_processed") /\ ret = "frame" /\ retframe.inst = 1
    /\ clock = 2
    /\ current_frame.inst = 1 /\ processed_frame.inst = 1
    /\ \A t \in Threads : tframe[t].inst # 2

\* C21: a caller's capture_frame and a capture loop are never both at
\* camera.read() on the feed's handle.
C21_NoConcurrentRead ==
    ~(cpc = "cap_read" /\ camera # 0 /\ \E t \in Threads : tpc[t] = "read")

RightAngles == {0, 90, 180, 270}

\* C22: rotation_angle is one of 0, 90, 180, 270.
C22_RightAngle == rotation_angle \in RightAngles

\* C23: from the rotation_angle reached, four times rotate_clockwise lead back to
\* it, and rotate_counterclockwise undoes rotate_clockwise (and the other way
\* round).
C23_FourTurns ==
    /\ RotatedClockwise(RotatedClockwise(RotatedClockwise(RotatedClockwise(
           rotation_angle)))) = rotation_angle
    /\ RotatedCounterclockwise(RotatedClockwise(rotation_angle)) = rotation_angle
    /\ RotatedClockwise(RotatedCounterclockwise(rotation_angle)) = rotation_angle

\* C23 happens: an angle that only a wraparound reaches from the arguments given.
C23_Witness == rotation_angle = 315

\* The settings are the defaults.
DefaultsSet ==
    /\ rotation_angle = 0 /\ ~flip_horizontal /\ ~flip_vertical
    /\ crop_region = NoCrop

\* C24: process_frame returns None for None, and with the default settings a frame
\* of the input's dimensions and pixels in a buffer that is not the input's.
C24_DefaultIsIdentity ==
    Returned("process_frame")
        => /\ image_in = NoImage => image_out = NoImage
           /\ (image_in # NoImage /\ DefaultsSet)
                  => /\ Width(image_out.px) = Width(image_in.px)
                     /\ Height(image_out.px) = Height(image_in.px)
                     /\ image_out.px = image_in.px
                     /\ image_out.buf # image_in.buf

\* C24 happens: process_frame has returned for the 3 x 2 image under the default
\* settings.
C24_Witness ==
    /\ Returned("process_frame") /\ DefaultsSet
    /\ image_in = Wide /\ image_out.px = Wide.px

\* Width and height of a w x h frame after the rotation step.
RotatedSize(angle, w, h) == IF angle \in {90, 270} THEN <<h, w>> ELSE <<w, h>>

\* The rectangle applied for the crop requested on a frame of the given size.
Applied(crop, width, height) ==
    LET x == Max(0, Min(crop[1], width - 1))
        y == Max(0, Min(crop[2], height - 1))
    IN  [x |-> x, y |-> y, w |-> Max(1, Min(crop[3], width - x)),
         h |-> Max(1, Min(crop[4], height - y))]

\* C25: process_frame rotates, then flips, then crops, and clamps the crop against
\* the size of the rotated frame (for 90 and 270: width = the input's height,
\* height = the input's width); a 1920 x 1080 input rotated by 90 with crop
\* (2000, 0, 100, 100) is cropped at x = 1079 with width 1.
C25_CropAfterRotation ==
    /\ LET size == RotatedSize(90, 1920, 1080)
           c == ClampCrop(<<2000, 0, 100, 100>>, size[1], size[2])
       IN  size = <<1080, 1920>> /\ c[1] = 1079 /\ c[3] = 1
    /\ (Returned("process_frame") /\ image_in # NoImage)
           => LET size == RotatedSize(rotation_angle, Width(image_in.px), Height(image_in.px))
                  turned == Rotated(image_in.px, rotation_angle)
                  flipped == Flipped(turned, flip_horizontal, flip_vertical)
              IN  /\ Width(turned) = size[1] /\ Height(turned) = size[2]
                  /\ (rotation_angle = 90 /\ flip_horizontal /\ ~flip_vertical)
                         => \A r \in 1..size[2], c \in 1..size[1] :
                                flipped[r][c] = image_in.px[c][r]
                  /\ crop_region = NoCrop => image_out.px = flipped
                  /\ crop_region # NoCrop
                         => LET a == Applied(crop_region, size[1], size[2])
                            IN  /\ Width(image_out.px) = a.w
                                /\ Height(image_out.px) = a.h
                                /\ \A r \in 1..a.h, c \in 1..a.w :
                                       image_out.px[r][c] = flipped[a.y + r][a.x + c]

\* C25 happens: the 3 x 2 image was rotated by 90 and flipped, and a crop at
\* x = 3, beyond the rotated width 2, was applied at x = 1 with width 1.
C25_Witness ==
    /\ Returned("process_frame") /\ image_in = Wide
    /\ rotation_angle = 90 /\ flip_horizontal /\ ~flip_vertical
    /\ crop_region = <<3, 0, 4, 4>>
    /\ image_out.px = <<<<4>>, <<5>>, <<6>>>>

\* C26: for every stored rectangle and every frame that is not empty, the
\* rectangle process_frame applies lies within the frame and is not empty, and
\* so is the frame returned.
C26_CropWithinFrame ==
    (Returned("process_frame") /\ image_in # NoImage /\ crop_region # NoCrop)
        => LET size == RotatedSize(rotation_angle, Width(image_in.px), Height(image_in.px))
               c == ClampCrop(crop_region, size[1], size[2])
           IN  /\ 0 <= c[1] /\ c[1] <= size[1] - 1
               /\ 0 <= c[2] /\ c[2] <= size[2] - 1
               /\ c[3] >= 1 /\ c[4] >= 1
               /\ c[1] + c[3] <= size[1]
               /\ c[2] + c[4] <= size[2]
               /\ Width(image_out.px) = c[3]
               /\ Height(image_out.px) = c[4]

\* C26 happens: a rectangle with a negative, an oversize and a zero component was
\* applied to the 3 x 2 image.
C26_Witness ==
    /\ Returned("process_frame") /\ image_in = Wide /\ rotation_angle = 0
    /\ crop_region = <<-1, 3, 0, 4>>
    /\ Width(image_out.px) = 1 /\ Height(image_out.px) = 1

\* The settings of the processor.
CurrentSettings ==
    [rotation_angle |-> rotation_angle, flip_horizontal |-> flip_horizontal,
     flip_vertical |-> flip_vertical, crop_region |-> crop_region]

\* The dictionary is the one get_settings_dict returns for the settings as they are.
DictIsCurrent ==
    /\ DOMAIN settings_dict # {}
    /\ settings_dict = SettingsDict(rotation_angle, flip_horizontal, flip_vertical,
                                    crop_region)

\* C27: what load_settings_dict makes of the dictionary get_settings_dict returns
\* are the four settings of the processor it was taken from; and when another
\* processor has loaded that dictionary, whatever its settings were before, its
\* four settings are those.
C27_SettingsRoundTrip ==
    /\ LoadedSettings(SettingsDict(rotation_angle, flip_horizontal, flip_vertical,
                                   crop_region)) = CurrentSettings
    /\ (Returned("load_settings_dict") /\ DictIsCurrent) => other = CurrentSettings

\* C27 happens: the second processor has loaded the dictionary of a processor
\* none of whose settings is at its default.
C27_Witness ==
    /\ Returned("load_settings_dict") /\ DictIsCurrent
    /\ rotation_angle = 270 /\ flip_horizontal /\ flip_vertical
    /\ crop_region = Rect
    /\ other = CurrentSettings

\* C28: detect_cameras(limit) returns, in ascending order, exactly the indices
\* of 0..limit-1 whose probe read a frame, and available_cameras is then the
\* returned list, whatever it cached before.
FrameIndices == {i \in 0..(Len(probes) - 1) : probes[i + 1].outcome = "frame"}
C28_DetectedAscending ==
    Returned("detect_cameras") =>
        /\ Len(probes) = max_cameras
        /\ \A j \in 1..Len(available) : \A k \in 1..Len(available) :
               j < k => available[j] < available[k]
        /\ {available[j] : j \in 1..Len(available)} = FrameIndices
        /\ available_cameras = available
C28_Witness ==
    /\ Returned("detect_cameras")
    /\ max_cameras = 3
    /\ pre.cams = <<0, 1>>
    /\ available_cameras = <<0, 2>>
    /\ probes[2].outcome = "exception"

\* C29: at the head of every iteration of detect_cameras and at its return, no
\* capture a probe opened is still open.
C29_ProbeHandlesReleased ==
    (cop = "detect_cameras" /\ cpc \in {"det_open", "return"}) =>
        \A j \in 1..Len(probes) : probes[j].cap # "open"

\* C30: get_available_camera_options returns the cached indices as named pairs
\* in their order, then the iPhone entry if an index was found that is not
\* cached, then a "Try Camera" entry for each of 2, 3, 4, 5 not listed so far,
\* in ascending order, and nothing else.
CachedSet == {available_cameras[j] : j \in 1..Len(available_cameras)}
IPhoneListed == iphone_idx # None /\ iphone_idx \notin CachedSet
NamedPart ==
    /\ Len(options) >= Len(available_cameras)
    /\ \A j \in 1..Len(available_cameras) : options[j] = <<available_cameras[j], "name">>
\* where the entries after the named ones and the iPhone entry begin
TriesFrom == Len(available_cameras) + (IF IPhoneListed THEN 1 ELSE 0) + 1
IPhonePart ==
    IPhoneListed => /\ Len(options) >= Len(available_cameras) + 1
                    /\ options[Len(available_cameras) + 1] = <<iphone_idx, "iPhone Camera">>
C30_OptionsWithTries ==
    Returned("get_available_camera_options") =>
        /\ NamedPart
        /\ IPhonePart
        /\ \A j \in TriesFrom..Len(options) : options[j][2] = "Try Camera"
        /\ \A j \in TriesFrom..Len(options) : \A k \in TriesFrom..Len(options) :
               j < k => options[j][1] < options[k][1]
        /\ {options[j][1] : j \in TriesFrom..Len(options)}
               = {2, 3, 4, 5} \ (CachedSet \cup {iphone_idx})
C30_Witness ==
    /\ Returned("get_available_camera_options")
    /\ available_cameras = <<0, 2>>
    /\ iphone_idx = 6
    /\ options = <<<<0, "name">>, <<2, "name">>, <<6, "iPhone Camera">>,
                   <<3, "Try Camera">>, <<4, "Try Camera">>, <<5, "Try Camera">>>>
\* C30 as stated: nothing follows the named pairs and the iPhone entry.
C30_AtMostOneFurther ==
    Returned("get_available_camera_options") =>
        /\ NamedPart
        /\ IPhonePart
        /\ Len(options) = TriesFrom - 1

\* C31: after cleanup has returned camera_feeds is empty and every feed that was
\* registered when it was called is not connected, not active and holds no
\* handle, the one it held being released; remove_feed has disconnected the
\* feed when it deletes the entry, and leaves registry and feeds as they were
\* for a name that is not registered.
Down(f) == ~f.is_connected /\ ~f.is_active /\ ~f.camera /\ f.handle # "open"
C31_CleanupDisconnectsAll ==
    /\ Returned("cleanup") =>
           /\ camera_feeds = <<>>
           /\ \A f \in Registered(pre.reg) : Down(feeds[f])
    /\ cpc = "rem_del" =>
           /\ Has(camera_feeds, rname)
           /\ Down(feeds[FeedOf(camera_feeds, rname)])
    /\ (Returned("remove_feed") /\ Has(pre.reg, rname)) =>
           /\ ~Has(camera_feeds, rname)
           /\ Len(camera_feeds) = Len(pre.reg) - 1
           /\ Down(feeds[FeedOf(pre.reg, rname)])
    /\ (Returned("remove_feed") /\ ~Has(pre.reg, rname)) =>
           /\ camera_feeds = pre.reg
           /\ feeds = pre.fds
C31_Witness ==
    /\ Returned("cleanup")
    /\ Len(pre.reg) = 2
    /\ \A f \in Registered(pre.reg) :
           /\ pre.fds[f].is_active
           /\ pre.fds[f].handle = "open"
           /\ feeds[f].handle = "released"

\* C38: with no call in progress every feed the manager has created that is
\* connected or capturing is registered, and after cleanup has returned no feed
\* the manager has created is connected or capturing.
C38_NoOrphanFeed ==
    /\ Idle => \A f \in 1..Len(feeds) :
           (feeds[f].is_connected \/ feeds[f].is_active) => f \in Registered(camera_feeds)
    /\ Returned("cleanup") => \A f \in 1..Len(feeds) :
           ~feeds[f].is_connected /\ ~feeds[f].is_active

\* C32: when detect_iphone_camera has returned and strategy 1 did not return a
\* verified index, strategy 2 has been attempted; the call returns None when
\* neither strategy found an index.
C32_ScanAlwaysAttempted ==
    (Returned("detect_iphone_camera") /\ listing.how # "verified") =>
        /\ scan_i >= ScanFirst
        /\ ret \in {"index", "None"}
        /\ (ret = "None") = (iphone_idx = None)

\* C33: a capture loop holds frame_lock only inside its with block, never while
\* it iterates over the callbacks, so that get_current_frame, called by a
\* callback or by another thread during the notification, finds the lock free
\* or held by a thread that is not in a callback.
C33_NoLockDuringCallbacks ==
    \A t \in Threads :
        /\ tpc[t] = "notify" => frame_lock # t
        /\ frame_lock = t => tpc[t] \in {"proc_crop", "proc_unpack"}
C33_Witness ==
    /\ cpc = "get_copy"
    /\ frame_lock = Caller
    /\ \E t \in Threads :
           /\ tpc[t] = "notify"
           /\ Len(frame_callbacks) = 2
           /\ idx[t] = 1
           /\ Len(calls[t]) = 1

\* C34: no callback appears more than once in frame_callbacks, and no callback
\* is invoked more than once in a cycle.
C34_SubscribersFormSet ==
    /\ \A j \in 1..Len(frame_callbacks) : \A k \in 1..Len(frame_callbacks) :
           j # k => frame_callbacks[j] # frame_callbacks[k]
    /\ \A t \in Threads : \A j \in 1..Len(calls[t]) : \A k \in 1..Len(calls[t]) :
           j # k => calls[t][j][1] # calls[t][k][1]

\* C35: with no call in progress, is_active is True only if a capture loop of
\* the feed is alive.
C35_ActiveImpliesLoop == (Idle /\ is_active) => \E t \in Threads : Alive(t)

\* C36: the transform a process_frame call has applied when it returns is the
\* transform of settings the processor held at some moment during the call.
Effective(st) ==
    [rot |-> IF st.rotation_angle \in {90, 180, 270} THEN st.rotation_angle ELSE 0,
     fh |-> st.flip_horizontal, fv |-> st.flip_vertical, crop |-> st.crop_region]
C36_OneSettingsState == ppc = "done" => \E st \in held : applied = Effective(st)

\* C37: a capture loop that is about to evaluate camera.isOpened() or
\* camera.read() finds self.camera set, to a handle that has not been released.
C37_HandleLiveWhileLoopRuns ==
    \A t \in Threads :
        tpc[t] \in {"check_open", "read"} => (camera # 0 /\ handles[camera] # "released")

\* C39: while the feed is capturing from an open device whose reads succeed,
\* the frame pair is eventually replaced by a newer capture and every
\* subscribed callback is eventually invoked with it.
Capturing == is_active /\ ~stop_capture /\ camera # 0 /\ IsOpened(camera)
\* A thread has stored a capture later than instant n and has come to the end
\* of its callbacks, each subscribed one invoked with that capture.
NotifiedAfter(n) ==
    \E t \in Threads :
        /\ tpc[t] = "notify"
        /\ idx[t] >= Len(frame_callbacks)
        /\ tframe[t].inst > n
        /\ processed_frame.inst > n
        /\ current_frame.inst > n
        /\ \A j \in 1..Len(frame_callbacks) : \E k \in 1..Len(calls[t]) :
               calls[t][k][1] = frame_callbacks[j] /\ calls[t][k][2] > n
C39_LoopMakesProgress ==
    \A n \in 0..(MaxReads - 1) :
        (Capturing /\ clock = n) ~> (~Capturing \/ NotifiedAfter(n))

\* C40: a start_feed that follows a stop_feed returns True with the stop
\* signal cleared and a new capture thread alive, the earlier ones dead; the
\* loop of capture_thread has exited only if the stop signal is set (or
\* start_feed has cleared it and is about to replace the thread); and the new
\* loop publishes a frame unless it is told to stop.
Restarted == Returned("start_feed") /\ pre.nt >= 1 /\ nthreads = pre.nt + 1
PublishedByNew(n) ==
    /\ capture_thread # 0
    /\ tpc[capture_thread] = "notify"
    /\ tframe[capture_thread].inst > n
    /\ processed_frame.inst = tframe[capture_thread].inst
    /\ current_frame.inst = tframe[capture_thread].inst
C40_FeedRestarts ==
    /\ [](Restarted => /\ ret = "True"
                       /\ ~stop_capture
                       /\ is_active
                       /\ capture_thread = nthreads
                       /\ Alive(nthreads)
                       /\ \A t \in 1..(nthreads - 1) : ~Alive(t))
    /\ []((capture_thread # 0 /\ tpc[capture_thread] = "exited")
              => (stop_capture \/ cpc = "start_spawn"))
    /\ \A n \in 0..(MaxReads - 1) :
           (nthreads >= 2 /\ Alive(capture_thread) /\ ~stop_capture /\ clock = n)
               ~> (stop_capture \/ PublishedByNew(n))
C40_Witness ==
    /\ tpc[1] = "exited"
    /\ capture_thread = 2
    /\ ~stop_capture
    /\ is_active
    /\ clock = 2
    /\ PublishedByNew(1)

====
